---- MODULE Spec2Model ----
(***************************************************************************)
(* Tower defense: the frame loop of main.py (handle_events, update, draw)  *)
(* with the world of world.py, the enemies of enemy.py and the turrets of  *)
(* turret.py.                                                              *)
(*                                                                         *)
(* Units.  Time is in milliseconds (pygame.time.get_ticks).  Positions and *)
(* speeds are in 1/SUB pixel and enemy health in 1/HPQ health point, so    *)
(* that every product with a difficulty multiplier (0.75, 0.9, 1.2, 1.25)  *)
(* and every slowed speed (1 - 0.3, 0.4, 0.5) is an exact integer.  The    *)
(* paths are axis-aligned polylines, on which Vector2.normalize() is       *)
(* exact.                                                                  *)
(***************************************************************************)
EXTENDS Integers, Sequences, FiniteSets, TLC

(***************************************************************************)
(* const.py                                                                *)
(***************************************************************************)
SPAWN_COOLDOWN == 800
HEALTH == 100
MONEY == 700
UPGRADE_COST == 100
\* SELL_RETURN_RATE = 0.3, as the fraction SELL_RETURN_NUM / SELL_RETURN_DEN
SELL_RETURN_NUM == 3
SELL_RETURN_DEN == 10
turret_buy_costs == [standard |-> 200, camo |-> 200, purple |-> 500]
\* TIDAL_MULTIPLIER = 1.25, as the fraction TIDAL_MULT_NUM / TIDAL_MULT_DEN
TIDAL_MULT_NUM == 5
TIDAL_MULT_DEN == 4
TIDAL_DURATION == 30000
TIDAL_UPGRADE_COST == 50
WAVE_COMPLETE_REWARD == 50
TILE_SIZE == 48
COLS == 20
\* turret.py
ANIMATION_DELAY == 15
\* main.py: the tile id of a buildable (sand) tile, and the message's display time
SAND == 161
MESSAGE_MS == 2000

(***************************************************************************)
(* Scales of the fixed-point values.                                       *)
(***************************************************************************)
SUB == 200      \* position units per pixel
HPQ == 4        \* health units per health point

(***************************************************************************)
(* enemy_data.py.  speed_x10 is the table's speed in tenths (1.5 -> 15).   *)
(***************************************************************************)
ENEMY_DATA ==
  [weak   |-> [health |-> 10, speed_x10 |-> 10, damage_inflicted |-> 1,  kill_reward |-> 10],
   medium |-> [health |-> 15, speed_x10 |-> 15, damage_inflicted |-> 5,  kill_reward |-> 15],
   strong |-> [health |-> 20, speed_x10 |-> 20, damage_inflicted |-> 10, kill_reward |-> 20],
   elite  |-> [health |-> 30, speed_x10 |-> 30, damage_inflicted |-> 15, kill_reward |-> 25]]

\* The order in which process_enemies walks the keys of a wave's dictionary.
EnemyTypeOrder == <<"weak", "medium", "strong", "elite">>

(***************************************************************************)
(* WAVE_ENEMY_DATA: the composition table, one entry per wave.  The table  *)
(* of the repository has 16 waves of 8 to 100 enemies; the model keeps its *)
(* shape with MaxLevels waves of WaveSize enemies: odd waves are all weak  *)
(* (as waves 1 to 3 of the table), even waves replace one weak enemy by a  *)
(* medium one (as waves 4 to 6 mix the two kinds).                         *)
(***************************************************************************)
MaxLevels == 2
WaveSize == 2

WAVE_ENEMY_DATA ==
  [n \in 1..MaxLevels |->
     IF n % 2 = 1
       THEN [weak |-> WaveSize, medium |-> 0, strong |-> 0, elite |-> 0]
       ELSE [weak |-> WaveSize - 1, medium |-> 1, strong |-> 0, elite |-> 0]]

\* Game.__init__: self.MAX_LEVELS = len(WAVE_ENEMY_DATA)
MAX_LEVELS == Len(WAVE_ENEMY_DATA)

(***************************************************************************)
(* turret_data.py.  slow_amount_x10 is the table's slow_amount in tenths.  *)
(***************************************************************************)
TD(r, c, d, a) ==
  [range |-> r, cooldown |-> c, damage |-> d, animation_steps |-> a,
   slow_amount_x10 |-> 0, slow_duration |-> 0]

TDS(r, c, d, a, sa, sd) ==
  [range |-> r, cooldown |-> c, damage |-> d, animation_steps |-> a,
   slow_amount_x10 |-> sa, slow_duration |-> sd]

TURRET_DATA ==
  [standard |-> << TD(100, 1500, 5, 8), TD(120, 1200, 5, 8),
                   TD(130, 1000, 5, 8), TD(150, 900, 5, 8) >>,
   camo     |-> << TD(110, 1600, 5, 8), TD(130, 1300, 5, 8),
                   TD(140, 1100, 5, 8), TD(160, 1000, 5, 8) >>,
   purple   |-> << TDS(120, 1700, 5, 11, 3, 500),  TDS(140, 1600, 7, 11, 4, 1000),
                   TDS(160, 1500, 8, 11, 5, 1500), TDS(180, 1400, 10, 11, 5, 2000) >>]

TurretTypes == {"standard", "camo", "purple"}

(***************************************************************************)
(* The difficulty presets of Enemy.__init__: the health multiplier in      *)
(* quarters (0.75, 1.0, 1.25) and the speed multiplier in tenths.          *)
(***************************************************************************)
difficulties == <<"easy", "normal", "hard">>

health_multiplier_x4(difficulty) ==
  IF difficulty = "easy" THEN 3 ELSE IF difficulty = "hard" THEN 5 ELSE 4

speed_multiplier_x10(difficulty) ==
  IF difficulty = "easy" THEN 9 ELSE IF difficulty = "hard" THEN 12 ELSE 10

(***************************************************************************)
(* The level files (levels/MAPn/mapn.tmj) are input: a tile map of         *)
(* ROWS x COLS tile ids and a polyline of waypoints.  The model's map has  *)
(* two sand tiles next to the path, one sand tile far from it and a path   *)
(* of two waypoints one pixel apart: an enemy of speed 1 moves onto the    *)
(* last waypoint in its first update, passes it in its second and leaves   *)
(* the map in its third.  Map 2 has the same tiles and a path of           *)
(* PathPixels pixels, all of it within the range of a turret on a tile by  *)
(* the path, on which an enemy outlives a firing cycle.  Map 3 has a path  *)
(* of three waypoints and two legs of 100 pixels, 200 pixels in all.       *)
(***************************************************************************)
MapIds == {1}

PathPixels == 12

Px(p) == <<p[1] * SUB, p[2] * SUB>>

\* World.process_data / process_waypoints: the waypoints layer of the map
Waypoints(map) ==
  IF map = 2 THEN << Px(<<24, 72>>), Px(<<24 + PathPixels, 72>>) >>
  ELSE IF map = 3 THEN << Px(<<24, 72>>), Px(<<124, 72>>), Px(<<124, 172>>) >>
  ELSE << Px(<<24, 72>>), Px(<<25, 72>>) >>

\* tile numbers (mouse_tile_y * COLS + mouse_tile_x) of the sand tiles
SandTiles(map) == {0, 1, 10}

\* a map on which every tile is a sand tile
TileMap_all_sand(map, tile_num) == SAND

\* World.process_data: the Background layer of the map
TileMap(map, tile_num) == IF tile_num \in SandTiles(map) THEN SAND ELSE 7

(***************************************************************************)
(* State.                                                                  *)
(*   now, frame_ms     pygame.time.get_ticks() and the frame's duration    *)
(*   frames_left, budget   frames and player commands left (model bounds)  *)
(*   pc, clicked       position in Game.run's loop body; the command that  *)
(*                     took the one mouse click of this frame ("" if none) *)
(*   state .. occupied_tiles   the fields of Game                          *)
(*   world             the World object (NoWorld while self.world is None) *)
(*   enemy_group, turret_group   the sprite groups, in insertion order     *)
(*   fatal             the uncaught exception that ended the program       *)
(*   next_enemy_id, next_turret_id   object identities                     *)
(*   kill_log, escape_log   history: the ids of the enemies counted as     *)
(*                     killed (check_if_alive) and as escaped (move)       *)
(***************************************************************************)
VARIABLES now, frame_ms, frames_left, budget, pc, clicked,
          state, game_status, wave_started, last_enemy_spawn, placing_turrets,
          selected_turret, placement_message, message_timer, current_turret_type,
          current_difficulty_index, selected_map, occupied_tiles,
          world, enemy_group, turret_group, fatal,
          next_enemy_id, next_turret_id, kill_log, escape_log

vars == <<now, frame_ms, frames_left, budget, pc, clicked,
          state, game_status, wave_started, last_enemy_spawn, placing_turrets,
          selected_turret, placement_message, message_timer, current_turret_type,
          current_difficulty_index, selected_map, occupied_tiles,
          world, enemy_group, turret_group, fatal,
          next_enemy_id, next_turret_id, kill_log, escape_log>>

\* None, for a reference to an enemy or a turret
None == 0

Abs(n) == IF n < 0 THEN -n ELSE n
Sgn(n) == IF n < 0 THEN -1 ELSE IF n > 0 THEN 1 ELSE 0

\* the number of occurrences of id in a log
Count(log, id) == Cardinality({i \in 1..Len(log) : log[i] = id})

(***************************************************************************)
(* world.py                                                                *)
(***************************************************************************)
\* self.world = None
NoWorld ==
  [level |-> 0, health |-> 0, money |-> 0, enemy_list |-> <<>>,
   spawned_enemies |-> 0, killed_enemies |-> 0, missed_enemies |-> 0]

\* World.__init__
NewWorld ==
  [level |-> 1, health |-> HEALTH, money |-> MONEY, enemy_list |-> <<>>,
   spawned_enemies |-> 0, killed_enemies |-> 0, missed_enemies |-> 0]

RECURSIVE Repeat(_, _)
Repeat(x, n) == IF n = 0 THEN <<>> ELSE <<x>> \o Repeat(x, n - 1)

\* the enemy types of one wave, appended type by type in dictionary order
RECURSIVE Expand(_, _)
Expand(enemies, k) ==
  IF k > Len(EnemyTypeOrder) THEN <<>>
  ELSE Repeat(EnemyTypeOrder[k], enemies[EnemyTypeOrder[k]]) \o Expand(enemies, k + 1)

\* random.shuffle: every order of the list
Shuffles(list) ==
  { [i \in 1..Len(list) |-> list[p[i]]] : p \in Permutations(1..Len(list)) }

\* WAVE_ENEMY_DATA[self.level - 1] raises IndexError past the last wave
WaveIndexError(w) == w.level > Len(WAVE_ENEMY_DATA)

\* World.process_enemies: the rosters it can leave in enemy_list
process_enemies(w) ==
  { [w EXCEPT !.enemy_list = l] :
      l \in Shuffles(w.enemy_list \o Expand(WAVE_ENEMY_DATA[w.level], 1)) }

\* World.is_wave_completed
is_wave_completed(w) ==
  (w.killed_enemies + w.missed_enemies) = Len(w.enemy_list)

\* a reset_values that keeps the roster of the wave that has ended
reset_values_keeps_roster(w) ==
  [w EXCEPT !.level = w.level + 1, !.spawned_enemies = 0,
            !.killed_enemies = 0, !.missed_enemies = 0]

\* a reset_values that keeps the counters of the wave that has ended
reset_values_keeps_counters(w) ==
  [w EXCEPT !.enemy_list = <<>>, !.level = w.level + 1]

\* World.reset_values
reset_values(w) ==
  [w EXCEPT !.enemy_list = <<>>, !.level = w.level + 1, !.spawned_enemies = 0,
            !.killed_enemies = 0, !.missed_enemies = 0]

(***************************************************************************)
(* enemy.py                                                                *)
(***************************************************************************)
\* Enemy.__init__
NewEnemy(id, enemy_type, waypoints, difficulty) ==
  LET original_speed ==
        (ENEMY_DATA[enemy_type].speed_x10 * speed_multiplier_x10(difficulty) * SUB) \div 100
      health == ENEMY_DATA[enemy_type].health * health_multiplier_x4(difficulty)
  IN [id |-> id, enemy_type |-> enemy_type, pos |-> waypoints[1],
      target_waypoint |-> 1, health |-> health, max_health |-> health,
      original_speed |-> original_speed, speed |-> original_speed,
      damage_inflicted |-> ENEMY_DATA[enemy_type].damage_inflicted,
      is_slowed |-> FALSE, slow_timer |-> 0]

\* Vector2.length() of an axis-aligned vector
Length(v) == Abs(v[1]) + Abs(v[2])

\* pos + v.normalize() * d, for an axis-aligned v
Advance(pos, v, d) == <<pos[1] + Sgn(v[1]) * d, pos[2] + Sgn(v[2]) * d>>

\* an end of the path that is reached one waypoint early
AtEnd_early(e, waypoints) == ~(e.target_waypoint + 1 < Len(waypoints))

\* Enemy.move reaches the end of the path: waypoints[target_waypoint] does not exist
AtEnd(e, waypoints) == ~(e.target_waypoint < Len(waypoints))

\* an Enemy.move that arrives at a waypoint and heads for the one after the next
move_skips_waypoint(e, waypoints) ==
  LET target   == waypoints[e.target_waypoint + 1]
      movement == <<target[1] - e.pos[1], target[2] - e.pos[2]>>
      dist     == Length(movement)
  IN IF dist > e.speed
       THEN [e EXCEPT !.pos = Advance(e.pos, movement, e.speed)]
       ELSE [e EXCEPT !.pos = target,
                      !.target_waypoint =
                         IF e.target_waypoint + 1 < Len(waypoints)
                           THEN e.target_waypoint + 2 ELSE e.target_waypoint + 1]

\* Enemy.move, the enemy's part (the target waypoint exists)
move(e, waypoints) ==
  LET target   == waypoints[e.target_waypoint + 1]
      movement == <<target[1] - e.pos[1], target[2] - e.pos[2]>>
      dist     == Length(movement)
  IN IF dist >= e.speed
       THEN [e EXCEPT !.pos = Advance(e.pos, movement, e.speed)]
       ELSE [e EXCEPT !.pos = IF dist # 0 THEN Advance(e.pos, movement, dist) ELSE e.pos,
                      !.target_waypoint = e.target_waypoint + 1]

\* a check_if_alive that misses an enemy whose health is exactly 0
IsDead_below_zero(e) == e.health < 0

\* Enemy.check_if_alive: the enemy is counted as killed
IsDead(e) == e.health <= 0

\* an update_slow_effect that clears the flag and leaves the speed
update_slow_effect_keeps_speed(e, t) ==
  IF e.is_slowed /\ t > e.slow_timer
    THEN [e EXCEPT !.is_slowed = FALSE]
    ELSE e

\* Enemy.update_slow_effect
update_slow_effect(e, t) ==
  IF e.is_slowed /\ t > e.slow_timer
    THEN [e EXCEPT !.is_slowed = FALSE, !.speed = e.original_speed]
    ELSE e

\* an apply_slow that slows an enemy that is slowed already
apply_slow_refreshes(e, slow_amount_x10, slow_duration, t) ==
  [e EXCEPT !.is_slowed = TRUE,
            !.speed = (e.original_speed * (10 - slow_amount_x10)) \div 10,
            !.slow_timer = t + slow_duration]

\* Enemy.apply_slow
apply_slow(e, slow_amount_x10, slow_duration, t) ==
  IF ~e.is_slowed
    THEN [e EXCEPT !.is_slowed = TRUE,
                   !.speed = (e.original_speed * (10 - slow_amount_x10)) \div 10,
                   !.slow_timer = t + slow_duration]
    ELSE e

\* an Enemy.update whose end-of-path branch does not remove the enemy
Enemy_update_keeps_escaped(e, w, waypoints, t) ==
  LET escaped == AtEnd(e, waypoints)
      w1 == IF escaped
              THEN [w EXCEPT !.health = w.health - e.damage_inflicted,
                             !.missed_enemies = w.missed_enemies + 1]
              ELSE w
      e1 == IF escaped THEN e ELSE move(e, waypoints)
  IN [e |-> update_slow_effect(e1, t), w |-> w1,
      alive |-> TRUE, escaped |-> escaped, killed |-> FALSE]

(***************************************************************************)
(* Enemy.update(world) of one enemy: move, rotate (rendering only),        *)
(* check_if_alive, update_slow_effect.  move() returns early at the end of *)
(* the path, and update() goes on to check_if_alive.  The result is the    *)
(* enemy, the world, whether kill() left it in the group, and which of the *)
(* two removals counted it.                                                *)
(***************************************************************************)
Enemy_update(e, w, waypoints, t) ==
  LET escaped == AtEnd(e, waypoints)
      e1 == IF escaped THEN e ELSE move(e, waypoints)
      w1 == IF escaped
              THEN [w EXCEPT !.health = w.health - e.damage_inflicted,
                             !.missed_enemies = w.missed_enemies + 1]
              ELSE w
      killed == IsDead(e1)
      w2 == IF killed
              THEN [w1 EXCEPT !.killed_enemies = w1.killed_enemies + 1,
                              !.money = w1.money + ENEMY_DATA[e.enemy_type].kill_reward]
              ELSE w1
  IN [e |-> update_slow_effect(e1, t), w |-> w2,
      alive |-> ~escaped /\ ~killed, escaped |-> escaped, killed |-> killed]

\* enemy_group.update(world): every sprite of the group, in order
RECURSIVE EnemyGroupUpdate(_, _, _, _, _)
EnemyGroupUpdate(group, i, acc, waypoints, t) ==
  IF i > Len(group) THEN acc
  ELSE LET r == Enemy_update(group[i], acc.w, waypoints, t)
       IN EnemyGroupUpdate(group, i + 1,
            [w |-> r.w,
             group |-> IF r.alive THEN Append(acc.group, r.e) ELSE acc.group,
             killed |-> IF r.killed THEN Append(acc.killed, group[i].id) ELSE acc.killed,
             escaped |-> IF r.escaped THEN Append(acc.escaped, group[i].id) ELSE acc.escaped],
            waypoints, t)

(***************************************************************************)
(* turret.py                                                               *)
(***************************************************************************)
\* Turret.__init__
NewTurret(id, turret_type, mouse_tile_x, mouse_tile_y, x, y, t) ==
  LET d == TURRET_DATA[turret_type][1]
  IN [id |-> id, turret_type |-> turret_type, turret_level |-> 1,
      base_range |-> d.range, base_cooldown |-> d.cooldown, base_damage |-> d.damage,
      range |-> d.range, cooldown |-> d.cooldown, damage |-> d.damage,
      last_shot |-> t, selected |-> FALSE, target |-> None,
      animation_steps |-> d.animation_steps,
      slow_amount_x10 |-> IF turret_type = "purple" THEN d.slow_amount_x10 ELSE 0,
      slow_duration |-> IF turret_type = "purple" THEN d.slow_duration ELSE 0,
      mouse_tile_x |-> mouse_tile_x, mouse_tile_y |-> mouse_tile_y, x |-> x, y |-> y,
      frame_index |-> 0, update_time |-> t,
      tidal_active |-> FALSE, tidal_used |-> FALSE, tidal_end_time |-> 0]

\* a reset that makes the turret eligible for a tidal upgrade again
reset_tidal_upgrade_clears_used(tu) ==
  [tu EXCEPT !.range = tu.base_range, !.damage = tu.base_damage,
             !.cooldown = tu.base_cooldown, !.tidal_active = FALSE,
             !.tidal_used = FALSE, !.tidal_end_time = 0]

\* Turret.reset_tidal_upgrade
reset_tidal_upgrade(tu) ==
  [tu EXCEPT !.range = tu.base_range, !.damage = tu.base_damage,
             !.cooldown = tu.base_cooldown, !.tidal_active = FALSE,
             !.tidal_end_time = 0]

\* a tidal upgrade that rounds the raised range and damage up
tidally_upgrade_rounds_up(tu, t) ==
  IF ~tu.tidal_used /\ ~tu.tidal_active
    THEN [tu EXCEPT !.range = (tu.base_range * TIDAL_MULT_NUM + TIDAL_MULT_DEN - 1)
                                \div TIDAL_MULT_DEN,
                    !.damage = (tu.base_damage * TIDAL_MULT_NUM + TIDAL_MULT_DEN - 1)
                                \div TIDAL_MULT_DEN,
                    !.tidal_active = TRUE, !.tidal_used = TRUE,
                    !.tidal_end_time = t + TIDAL_DURATION]
    ELSE tu

\* Turret.tidally_upgrade; int() truncates
tidally_upgrade(tu, t) ==
  IF ~tu.tidal_used /\ ~tu.tidal_active
    THEN [tu EXCEPT !.range = (tu.base_range * TIDAL_MULT_NUM) \div TIDAL_MULT_DEN,
                    !.damage = (tu.base_damage * TIDAL_MULT_NUM) \div TIDAL_MULT_DEN,
                    !.tidal_active = TRUE, !.tidal_used = TRUE,
                    !.tidal_end_time = t + TIDAL_DURATION]
    ELSE tu

\* an upgrade that leaves the turret as it is
upgrade_noop(tu) == tu

\* Turret.upgrade
upgrade(tu) ==
  IF tu.turret_level < Len(TURRET_DATA[tu.turret_type])
    THEN LET l == tu.turret_level + 1
             d == TURRET_DATA[tu.turret_type][l]
         IN [tu EXCEPT !.turret_level = l,
                       !.base_range = d.range, !.base_cooldown = d.cooldown,
                       !.base_damage = d.damage,
                       !.range = d.range, !.cooldown = d.cooldown, !.damage = d.damage,
                       !.slow_amount_x10 =
                          IF tu.turret_type = "purple" THEN d.slow_amount_x10 ELSE 0,
                       !.slow_duration =
                          IF tu.turret_type = "purple" THEN d.slow_duration ELSE 0]
    ELSE tu

\* a play_animation that keeps the target when the animation has run
play_animation_keeps_target(tu, t) ==
  IF t - tu.update_time > ANIMATION_DELAY
    THEN IF tu.frame_index < tu.animation_steps - 1
           THEN [tu EXCEPT !.update_time = t, !.frame_index = tu.frame_index + 1]
           ELSE [tu EXCEPT !.update_time = t, !.frame_index = 0, !.last_shot = t]
    ELSE tu

\* Turret.play_animation; len(self.animation_list) is animation_steps
play_animation(tu, t) ==
  IF t - tu.update_time > ANIMATION_DELAY
    THEN IF tu.frame_index < tu.animation_steps - 1
           THEN [tu EXCEPT !.update_time = t, !.frame_index = tu.frame_index + 1]
           ELSE [tu EXCEPT !.update_time = t, !.frame_index = 0,
                           !.last_shot = t, !.target = None]
    ELSE tu

\* math.sqrt(x_dist**2 + y_dist**2) < self.range, on the squares; the
\* differences are bounded first to keep the squares small
InRange(tu, e) ==
  LET x_dist == e.pos[1] - tu.x * SUB
      y_dist == e.pos[2] - tu.y * SUB
      r      == tu.range * SUB
  IN /\ Abs(x_dist) < r
     /\ Abs(y_dist) < r
     /\ y_dist * y_dist < r * r - x_dist * x_dist

\* a select_target loop that stops at the last enemy that qualifies
FirstTarget_last(tu, group) ==
  LET hits == {i \in 1..Len(group) : group[i].health > 0 /\ InRange(tu, group[i])}
  IN IF hits = {} THEN 0 ELSE CHOOSE i \in hits : \A j \in hits : i >= j

\* the enemy select_target's loop stops at: the first of the group, in its
\* order, with health > 0 and within range (0 when there is none)
FirstTarget(tu, group) ==
  LET hits == {i \in 1..Len(group) : group[i].health > 0 /\ InRange(tu, group[i])}
  IN IF hits = {} THEN 0 ELSE CHOOSE i \in hits : \A j \in hits : i <= j

\* a select_target that inflicts the damage twice
select_target_twice(tu, group, t) ==
  LET i == FirstTarget(tu, group)
  IN IF i = 0 THEN [tu |-> tu, group |-> group]
     ELSE [tu |-> [tu EXCEPT !.target = group[i].id],
           group |-> [group EXCEPT ![i].health = group[i].health - 2 * tu.damage * HPQ]]

\* Turret.select_target: the turret and the enemy group after it
select_target(tu, group, t) ==
  LET i == FirstTarget(tu, group)
  IN IF i = 0 THEN [tu |-> tu, group |-> group]
     ELSE LET hit    == [group[i] EXCEPT !.health = group[i].health - tu.damage * HPQ]
              slowed == IF tu.turret_type = "purple" /\ tu.slow_amount_x10 > 0
                           /\ tu.slow_duration > 0
                          THEN apply_slow(hit, tu.slow_amount_x10, tu.slow_duration, t)
                          ELSE hit
          IN [tu |-> [tu EXCEPT !.target = group[i].id],
              group |-> [group EXCEPT ![i] = slowed]]

\* a Turret.update that selects a target without waiting for the cooldown
Turret_update_no_cooldown(tu, group, t) ==
  LET tu1 == IF tu.tidal_active /\ t >= tu.tidal_end_time
               THEN reset_tidal_upgrade(tu) ELSE tu
  IN IF tu1.target # None
       THEN [tu |-> play_animation(tu1, t), group |-> group]
       ELSE select_target(tu1, group, t)

\* a Turret.update that drops a target that is no longer in the group
Turret_update_drops_dead_target(tu, group, t) ==
  LET tu1 == IF tu.tidal_active /\ t >= tu.tidal_end_time
               THEN reset_tidal_upgrade(tu) ELSE tu
      live == \E i \in 1..Len(group) : group[i].id = tu1.target
  IN IF tu1.target # None /\ live
       THEN [tu |-> play_animation(tu1, t), group |-> group]
       ELSE IF tu1.target # None
              THEN [tu |-> [tu1 EXCEPT !.target = None], group |-> group]
              ELSE IF t - tu1.last_shot > tu1.cooldown
                     THEN select_target(tu1, group, t)
                     ELSE [tu |-> tu1, group |-> group]

\* Turret.update(enemy_group)
Turret_update(tu, group, t) ==
  LET tu1 == IF tu.tidal_active /\ t >= tu.tidal_end_time
               THEN reset_tidal_upgrade(tu) ELSE tu
  IN IF tu1.target # None
       THEN [tu |-> play_animation(tu1, t), group |-> group]
       ELSE IF t - tu1.last_shot > tu1.cooldown
              THEN select_target(tu1, group, t)
              ELSE [tu |-> tu1, group |-> group]

\* turret_group.update(enemy_group): every turret, in order, on the same group
RECURSIVE TurretGroupUpdate(_, _, _, _)
TurretGroupUpdate(turrets, i, acc, t) ==
  IF i > Len(turrets) THEN acc
  ELSE LET r == Turret_update(turrets[i], acc.group, t)
       IN TurretGroupUpdate(turrets, i + 1,
            [turrets |-> Append(acc.turrets, r.tu), group |-> r.group], t)

\* for turret in self.turret_group: turret.reset_tidal_upgrade()
ResetAllTidal(turrets) == [i \in 1..Len(turrets) |-> reset_tidal_upgrade(turrets[i])]

(***************************************************************************)
(* main.py: Game                                                           *)
(***************************************************************************)
\* self.selected_difficulty
selected_difficulty == difficulties[current_difficulty_index + 1]

\* the turret of the group a reference denotes
TurretIndex(turrets, id) ==
  IF \E i \in 1..Len(turrets) : turrets[i].id = id
    THEN CHOOSE i \in 1..Len(turrets) : turrets[i].id = id
    ELSE 0

Remove(seq, i) == [j \in 1..(Len(seq) - 1) |-> IF j < i THEN seq[j] ELSE seq[j + 1]]

\* the end of draw_game: a message older than two seconds is cleared
MessageShown(msg, timer, t) ==
  IF msg # "" /\ ~(t - timer < MESSAGE_MS) THEN "" ELSE msg

\* Game.__init__, for a machine whose frames last one of the durations and
\* a player who issues at most maxCommands commands in maxFrames frames
GameInit(durations, maxFrames, maxCommands) ==
  /\ now = 0
  /\ frame_ms \in durations
  /\ frames_left = maxFrames
  /\ budget = maxCommands
  /\ pc = "events"
  /\ clicked = ""
  /\ state = "menu"
  /\ game_status = 0
  /\ wave_started = FALSE
  /\ last_enemy_spawn = 0
  /\ placing_turrets = FALSE
  /\ selected_turret = None
  /\ placement_message = ""
  /\ message_timer = 0
  /\ current_turret_type = "standard"
  /\ current_difficulty_index = 1
  /\ selected_map = None
  /\ occupied_tiles = {}
  /\ world = NoWorld
  /\ enemy_group = <<>>
  /\ turret_group = <<>>
  /\ fatal = "none"
  /\ next_enemy_id = 1
  /\ next_turret_id = 1
  /\ kill_log = <<>>
  /\ escape_log = <<>>

\* Game.run: clock.tick() starts the next frame
FrameStarts ==
  /\ fatal = "none"
  /\ pc = "events"
  /\ frames_left > 0
  /\ now' = now + frame_ms
  /\ frames_left' = frames_left - 1
  /\ pc' = "update"
  /\ UNCHANGED <<frame_ms, fatal>>

\* the player spends one command
Command == budget > 0 /\ budget' = budget - 1

\* Game.handle_events: no event in the queue
EvNone ==
  /\ FrameStarts
  /\ clicked' = ""
  /\ UNCHANGED <<budget, state, game_status, wave_started, last_enemy_spawn,
                 placing_turrets, selected_turret, placement_message, message_timer,
                 current_turret_type, current_difficulty_index, selected_map,
                 occupied_tiles, world, enemy_group, turret_group,
                 next_enemy_id, next_turret_id, kill_log, escape_log>>

\* Game.handle_events, state "menu": a click on map image i
EvSelectMap(map) ==
  /\ FrameStarts
  /\ Command
  /\ state = "menu"
  /\ clicked' = "map"
  /\ selected_map' = map
  /\ world' \in process_enemies(NewWorld)
  /\ state' = "game"
  /\ UNCHANGED <<game_status, wave_started, last_enemy_spawn,
                 placing_turrets, selected_turret, placement_message, message_timer,
                 current_turret_type, current_difficulty_index,
                 occupied_tiles, enemy_group, turret_group,
                 next_enemy_id, next_turret_id, kill_log, escape_log>>

\* Game.handle_events, state "menu": a click on the difficulty button
EvDifficulty ==
  /\ FrameStarts
  /\ Command
  /\ state = "menu"
  /\ clicked' = "difficulty"
  /\ current_difficulty_index' = (current_difficulty_index + 1) % Len(difficulties)
  /\ UNCHANGED <<state, game_status, wave_started, last_enemy_spawn,
                 placing_turrets, selected_turret, placement_message, message_timer,
                 current_turret_type, selected_map,
                 occupied_tiles, world, enemy_group, turret_group,
                 next_enemy_id, next_turret_id, kill_log, escape_log>>

\* a purchase that is not guarded by the player's money
CanAfford_unguarded(money, cost) == TRUE

\* a purchase that is open to a player with any money at all
CanAfford_any_money(money, cost) == money > 0

\* Game.handle_events guards the purchase by self.world.money >= buy_cost
CanAfford(money, cost) == money >= cost

\* Game.handle_events, state "game", placing_turrets: a click on the tile
\* (mouse_tile_x, mouse_tile_y) of the game area, with Game.create_turret
EvPlaceTurret(mouse_tile_x, mouse_tile_y) ==
  LET buy_cost == turret_buy_costs[current_turret_type]
      mouse_tile_num == (mouse_tile_y * COLS) + mouse_tile_x
      pixel_x == mouse_tile_x * TILE_SIZE + TILE_SIZE \div 2
      pixel_y == mouse_tile_y * TILE_SIZE + TILE_SIZE \div 2
  IN
  /\ FrameStarts
  /\ Command
  /\ state = "game"
  /\ placing_turrets
  /\ clicked' = "place"
  /\ IF CanAfford(world.money, buy_cost)
       THEN IF TileMap(selected_map, mouse_tile_num) = SAND
              THEN IF mouse_tile_num \notin occupied_tiles
                     THEN /\ turret_group' = Append(turret_group,
                                NewTurret(next_turret_id, current_turret_type,
                                          mouse_tile_x, mouse_tile_y, pixel_x, pixel_y, now'))
                          /\ next_turret_id' = next_turret_id + 1
                          /\ occupied_tiles' = occupied_tiles \cup {mouse_tile_num}
                          /\ placement_message' = "Turret placed successfully!"
                          /\ world' = [world EXCEPT !.money = world.money - buy_cost]
                          /\ placing_turrets' = FALSE
                     ELSE /\ placement_message' = "Tile is already occupied!"
                          /\ UNCHANGED <<turret_group, next_turret_id, occupied_tiles,
                                         world, placing_turrets>>
              ELSE /\ placement_message' = "Invalid placement area."
                   /\ UNCHANGED <<turret_group, next_turret_id, occupied_tiles,
                                  world, placing_turrets>>
       ELSE /\ placement_message' = "Not enough money to place turret!"
            /\ UNCHANGED <<turret_group, next_turret_id, occupied_tiles,
                           world, placing_turrets>>
  /\ message_timer' = now'
  /\ UNCHANGED <<state, game_status, wave_started, last_enemy_spawn,
                 selected_turret, current_turret_type, current_difficulty_index,
                 selected_map, enemy_group, next_enemy_id, kill_log, escape_log>>

\* Game.select_turret: the first turret of the group on the tile, or None
select_turret(mouse_tile_x, mouse_tile_y) ==
  LET on == {i \in 1..Len(turret_group) :
               /\ turret_group[i].mouse_tile_x = mouse_tile_x
               /\ turret_group[i].mouse_tile_y = mouse_tile_y}
  IN IF on = {} THEN None
     ELSE turret_group[CHOOSE i \in on : \A j \in on : i <= j].id

\* Game.handle_events, state "game", not placing: a click on a tile selects
EvSelectTurret(mouse_tile_x, mouse_tile_y) ==
  /\ FrameStarts
  /\ Command
  /\ state = "game"
  /\ ~placing_turrets
  /\ clicked' = "select"
  /\ selected_turret' = select_turret(mouse_tile_x, mouse_tile_y)
  /\ turret_group' = [i \in 1..Len(turret_group) |->
        [turret_group[i] EXCEPT !.selected = (turret_group[i].id = selected_turret')]]
  /\ UNCHANGED <<state, game_status, wave_started, last_enemy_spawn,
                 placing_turrets, placement_message, message_timer,
                 current_turret_type, current_difficulty_index, selected_map,
                 occupied_tiles, world, enemy_group,
                 next_enemy_id, next_turret_id, kill_log, escape_log>>

\* an update that checks the win before the loss
update_branch_win_first(health, level) ==
  IF level > MAX_LEVELS THEN "win"
  ELSE IF health <= 0 THEN "loss"
  ELSE "run"

\* Game.update in the state "game", lines 618-629: the branch taken, by
\* world.health and world.level
update_branch(health, level) ==
  IF health <= 0 THEN "loss"
  ELSE IF level > MAX_LEVELS THEN "win"
  ELSE "run"

\* a Game.update that updates the turrets before the enemies
Update_turrets_first ==
  /\ fatal = "none"
  /\ pc = "update"
  /\ pc' = "draw"
  /\ IF state = "game" /\ world.health > 0 /\ world.level <= MAX_LEVELS
       THEN LET tu == TurretGroupUpdate(turret_group, 1,
                        [turrets |-> <<>>, group |-> enemy_group], now)
                en == EnemyGroupUpdate(tu.group, 1,
                        [w |-> world, group |-> <<>>,
                         killed |-> <<>>, escaped |-> <<>>],
                        Waypoints(selected_map), now)
            IN /\ world' = en.w
               /\ enemy_group' = en.group
               /\ turret_group' = tu.turrets
               /\ kill_log' = kill_log \o en.killed
               /\ escape_log' = escape_log \o en.escaped
               /\ UNCHANGED <<state, game_status>>
       ELSE /\ game_status' = IF state # "game" THEN game_status
                              ELSE IF world.health <= 0 THEN -1 ELSE 1
            /\ state' = IF state = "game" THEN "game_over" ELSE state
            /\ UNCHANGED <<world, enemy_group, turret_group, kill_log, escape_log>>
  /\ UNCHANGED <<now, frame_ms, frames_left, budget, clicked, fatal,
                 wave_started, last_enemy_spawn, placing_turrets, selected_turret,
                 placement_message, message_timer, current_turret_type,
                 current_difficulty_index, selected_map, occupied_tiles,
                 next_enemy_id, next_turret_id>>

(***************************************************************************)
(* Game.update                                                             *)
(***************************************************************************)
Update ==
  /\ fatal = "none"
  /\ pc = "update"
  /\ pc' = "draw"
  /\ IF state = "game"
       THEN IF update_branch(world.health, world.level) = "loss"
              THEN /\ game_status' = -1
                   /\ state' = "game_over"
                   /\ UNCHANGED <<world, enemy_group, turret_group, kill_log, escape_log>>
              ELSE IF update_branch(world.health, world.level) = "win"
                     THEN /\ game_status' = 1
                          /\ state' = "game_over"
                          /\ UNCHANGED <<world, enemy_group, turret_group,
                                         kill_log, escape_log>>
                     ELSE LET en == EnemyGroupUpdate(enemy_group, 1,
                                      [w |-> world, group |-> <<>>,
                                       killed |-> <<>>, escaped |-> <<>>],
                                      Waypoints(selected_map), now)
                              tu == TurretGroupUpdate(turret_group, 1,
                                      [turrets |-> <<>>, group |-> en.group], now)
                          IN /\ world' = en.w
                             /\ enemy_group' = tu.group
                             /\ turret_group' = tu.turrets
                             /\ kill_log' = kill_log \o en.killed
                             /\ escape_log' = escape_log \o en.escaped
                             /\ UNCHANGED <<state, game_status>>
       ELSE UNCHANGED <<state, game_status, world, enemy_group, turret_group,
                        kill_log, escape_log>>
  /\ UNCHANGED <<now, frame_ms, frames_left, budget, clicked, fatal,
                 wave_started, last_enemy_spawn, placing_turrets, selected_turret,
                 placement_message, message_timer, current_turret_type,
                 current_difficulty_index, selected_map, occupied_tiles,
                 next_enemy_id, next_turret_id>>

(***************************************************************************)
(* A restart_level that keeps the turrets and their tiles.                 *)
(***************************************************************************)
restart_level_keeps_turrets ==
  /\ state' = "menu"
  /\ game_status' = 0
  /\ wave_started' = FALSE
  /\ placing_turrets' = FALSE
  /\ selected_turret' = None
  /\ last_enemy_spawn' = now
  /\ current_turret_type' = "standard"
  /\ world' \in process_enemies(NewWorld)
  /\ enemy_group' = <<>>
  /\ UNCHANGED <<turret_group, occupied_tiles>>
  /\ placement_message' = ""
  /\ message_timer' = 0

(***************************************************************************)
(* Game.restart_level: the fields it assigns.  The world is a new World    *)
(* with the roster of wave 1.                                              *)
(***************************************************************************)
restart_level ==
  /\ state' = "menu"
  /\ game_status' = 0
  /\ wave_started' = FALSE
  /\ placing_turrets' = FALSE
  /\ selected_turret' = None
  /\ last_enemy_spawn' = now
  /\ current_turret_type' = "standard"
  /\ world' \in process_enemies(NewWorld)
  /\ enemy_group' = <<>>
  /\ turret_group' = <<>>
  /\ occupied_tiles' = {}
  /\ placement_message' = ""
  /\ message_timer' = 0

(***************************************************************************)
(* Game.draw in the states "menu" and "game_over": draw_menu changes       *)
(* nothing; draw_game_over polls the restart button.                       *)
(***************************************************************************)
DrawOther ==
  /\ fatal = "none"
  /\ pc = "draw"
  /\ state # "game"
  /\ pc' = "events"
  /\ \/ /\ UNCHANGED <<budget, clicked, state, game_status, wave_started,
                       last_enemy_spawn, placing_turrets, selected_turret,
                       placement_message, message_timer, current_turret_type,
                       occupied_tiles, world, enemy_group, turret_group>>
     \/ /\ state = "game_over"
        /\ clicked = ""
        /\ Command
        /\ clicked' = "restart"
        /\ restart_level
  /\ UNCHANGED <<now, frame_ms, frames_left, fatal, current_difficulty_index,
                 selected_map, next_enemy_id, next_turret_id, kill_log, escape_log>>

(***************************************************************************)
(* Game.draw_game, lines 804-823: the spawn of the next roster entry while *)
(* the wave is started, the begin button while it is not.                  *)
(***************************************************************************)
\* a spawn that does not wait for the cooldown
SpawnDue_no_cooldown ==
  world.spawned_enemies < Len(world.enemy_list)

SpawnDue ==
  /\ now - last_enemy_spawn > SPAWN_COOLDOWN
  /\ world.spawned_enemies < Len(world.enemy_list)

DrawSpawn ==
  /\ fatal = "none"
  /\ pc = "draw"
  /\ state = "game"
  /\ wave_started
  /\ pc' = "complete"
  /\ IF SpawnDue
       THEN /\ enemy_group' = Append(enemy_group,
                 NewEnemy(next_enemy_id, world.enemy_list[world.spawned_enemies + 1],
                          Waypoints(selected_map), selected_difficulty))
            /\ next_enemy_id' = next_enemy_id + 1
            /\ world' = [world EXCEPT !.spawned_enemies = world.spawned_enemies + 1]
            /\ last_enemy_spawn' = now
       ELSE UNCHANGED <<enemy_group, next_enemy_id, world, last_enemy_spawn>>
  /\ UNCHANGED <<now, frame_ms, frames_left, budget, clicked, fatal,
                 state, game_status, wave_started, placing_turrets, selected_turret,
                 placement_message, message_timer, current_turret_type,
                 current_difficulty_index, selected_map, occupied_tiles,
                 turret_group, next_turret_id, kill_log, escape_log>>

DrawBegin ==
  /\ fatal = "none"
  /\ pc = "draw"
  /\ state = "game"
  /\ ~wave_started
  /\ pc' = "complete"
  /\ \/ UNCHANGED <<wave_started, budget, clicked>>
     \/ /\ clicked = ""
        /\ Command
        /\ clicked' = "begin"
        /\ wave_started' = TRUE
  /\ UNCHANGED <<now, frame_ms, frames_left, fatal,
                 state, game_status, last_enemy_spawn, placing_turrets, selected_turret,
                 placement_message, message_timer, current_turret_type,
                 current_difficulty_index, selected_map, occupied_tiles,
                 world, enemy_group, turret_group,
                 next_enemy_id, next_turret_id, kill_log, escape_log>>

(***************************************************************************)
(* The end of a wave, in draw_game (lines 833-839) and in skip_wave (lines *)
(* 654-660): the reward, reset_values, process_enemies and the reset of    *)
(* every turret's tidal upgrade.  An IndexError of process_enemies ends    *)
(* the program before the turrets are reset.                               *)
(***************************************************************************)
\* an end of the wave that restores the player's health
EndWave_restores_health(w, turrets) ==
  LET w1 == reset_values([w EXCEPT !.money = w.money + WAVE_COMPLETE_REWARD,
                                   !.health = HEALTH])
  IN /\ wave_started' = FALSE
     /\ last_enemy_spawn' = now
     /\ IF WaveIndexError(w1)
          THEN /\ world' = w1
               /\ turret_group' = turrets
               /\ fatal' = "IndexError"
          ELSE /\ world' \in process_enemies(w1)
               /\ turret_group' = ResetAllTidal(turrets)
               /\ fatal' = "none"

EndWave(w, turrets) ==
  LET w1 == reset_values([w EXCEPT !.money = w.money + WAVE_COMPLETE_REWARD])
  IN /\ wave_started' = FALSE
     /\ last_enemy_spawn' = now
     /\ IF WaveIndexError(w1)
          THEN /\ world' = w1
               /\ turret_group' = turrets
               /\ fatal' = "IndexError"
          ELSE /\ world' \in process_enemies(w1)
               /\ turret_group' = ResetAllTidal(turrets)
               /\ fatal' = "none"

\* Game.draw_game, lines 827-841
DrawWaveCompleted ==
  /\ fatal = "none"
  /\ pc = "complete"
  /\ pc' = "buttons"
  /\ IF is_wave_completed(world)
       THEN IF world.level > MAX_LEVELS
              THEN /\ game_status' = 1
                   /\ state' = "game_over"
                   /\ UNCHANGED <<world, wave_started, last_enemy_spawn,
                                  turret_group, fatal>>
              ELSE /\ EndWave(world, turret_group)
                   /\ UNCHANGED <<state, game_status>>
       ELSE UNCHANGED <<state, game_status, world, wave_started, last_enemy_spawn,
                        turret_group, fatal>>
  /\ UNCHANGED <<now, frame_ms, frames_left, budget, clicked,
                 placing_turrets, selected_turret,
                 placement_message, message_timer, current_turret_type,
                 current_difficulty_index, selected_map, occupied_tiles,
                 enemy_group, next_enemy_id, next_turret_id, kill_log, escape_log>>

(***************************************************************************)
(* Game.draw_game, lines 843-1009: the side-panel buttons, then the        *)
(* message.  The mouse is at one place during a frame, so at most one      *)
(* button reports a click, and only a button that is drawn can.            *)
(***************************************************************************)
ButtonsStep ==
  /\ fatal = "none"
  /\ pc = "buttons"
  /\ pc' = "events"
  /\ UNCHANGED <<now, frame_ms, frames_left>>

Press(button) ==
  /\ clicked = ""
  /\ Command
  /\ clicked' = button

\* no button is pressed
BtnNothing ==
  /\ ButtonsStep
  /\ placement_message' = MessageShown(placement_message, message_timer, now)
  /\ UNCHANGED <<budget, clicked, fatal, state, game_status, wave_started,
                 last_enemy_spawn, placing_turrets, selected_turret, message_timer,
                 current_turret_type, current_difficulty_index, selected_map,
                 occupied_tiles, world, enemy_group, turret_group,
                 next_enemy_id, next_turret_id, kill_log, escape_log>>

PlacingMessage(turret_type) ==
  IF turret_type = "standard" THEN "Placing Standard Turret"
  ELSE IF turret_type = "camo" THEN "Placing Camo Turret"
  ELSE "Placing Purple Turret"

\* lines 844-863: one of the three turret buttons
BtnTurretType(turret_type) ==
  /\ ButtonsStep
  /\ Press("buy")
  /\ placing_turrets' = TRUE
  /\ current_turret_type' = turret_type
  /\ placement_message' = PlacingMessage(turret_type)
  /\ message_timer' = now
  /\ UNCHANGED <<fatal, state, game_status, wave_started,
                 last_enemy_spawn, selected_turret,
                 current_difficulty_index, selected_map,
                 occupied_tiles, world, enemy_group, turret_group,
                 next_enemy_id, next_turret_id, kill_log, escape_log>>

\* lines 889-894: the cancel button, drawn while placing
BtnCancel ==
  /\ ButtonsStep
  /\ placing_turrets
  /\ Press("cancel")
  /\ placing_turrets' = FALSE
  /\ placement_message' = "Turret placement canceled."
  /\ message_timer' = now
  /\ UNCHANGED <<fatal, state, game_status, wave_started,
                 last_enemy_spawn, selected_turret, current_turret_type,
                 current_difficulty_index, selected_map,
                 occupied_tiles, world, enemy_group, turret_group,
                 next_enemy_id, next_turret_id, kill_log, escape_log>>

\* the turret self.selected_turret refers to
Selected == turret_group[TurretIndex(turret_group, selected_turret)]

HasSelected == selected_turret # None /\ TurretIndex(turret_group, selected_turret) # 0

SetSelected(tu) == [turret_group EXCEPT ![TurretIndex(turret_group, selected_turret)] = tu]

\* an upgrade button that upgrades a tidally upgraded turret as well
BtnUpgrade_ignores_tidal ==
  /\ ButtonsStep
  /\ HasSelected
  /\ Selected.turret_level < Len(TURRET_DATA[Selected.turret_type])
  /\ Press("upgrade")
  /\ IF CanAfford(world.money, UPGRADE_COST)
       THEN /\ world' = [world EXCEPT !.money = world.money - UPGRADE_COST]
            /\ turret_group' = SetSelected(upgrade(Selected))
            /\ placement_message' = "Turret upgraded successfully!"
       ELSE /\ placement_message' = "Not enough money to upgrade turret!"
            /\ UNCHANGED <<world, turret_group>>
  /\ message_timer' = now
  /\ UNCHANGED <<fatal, state, game_status, wave_started,
                 last_enemy_spawn, placing_turrets, selected_turret, current_turret_type,
                 current_difficulty_index, selected_map,
                 occupied_tiles, enemy_group,
                 next_enemy_id, next_turret_id, kill_log, escape_log>>

\* lines 899-918: the upgrade button, drawn below the maximum level
BtnUpgrade ==
  /\ ButtonsStep
  /\ HasSelected
  /\ Selected.turret_level < Len(TURRET_DATA[Selected.turret_type])
  /\ Press("upgrade")
  /\ IF ~Selected.tidal_active
       THEN IF CanAfford(world.money, UPGRADE_COST)
              THEN /\ world' = [world EXCEPT !.money = world.money - UPGRADE_COST]
                   /\ turret_group' = SetSelected(upgrade(Selected))
                   /\ placement_message' = "Turret upgraded successfully!"
              ELSE /\ placement_message' = "Not enough money to upgrade turret!"
                   /\ UNCHANGED <<world, turret_group>>
       ELSE /\ placement_message' = "You can't upgrade turret, while it's tidally upgraded"
            /\ UNCHANGED <<world, turret_group>>
  /\ message_timer' = now
  /\ UNCHANGED <<fatal, state, game_status, wave_started,
                 last_enemy_spawn, placing_turrets, selected_turret, current_turret_type,
                 current_difficulty_index, selected_map,
                 occupied_tiles, enemy_group,
                 next_enemy_id, next_turret_id, kill_log, escape_log>>

\* a tidal button that takes every selected turret for eligible
TidalEligible_always(tu) == TRUE

\* line 924: the turret is eligible for a tidal upgrade
TidalEligible(tu) == ~tu.tidal_used /\ ~tu.tidal_active

\* lines 920-941: the tidal upgrade button
BtnTidal ==
  /\ ButtonsStep
  /\ HasSelected
  /\ Press("tidal")
  /\ IF wave_started
       THEN IF TidalEligible(Selected)
              THEN IF CanAfford(world.money, TIDAL_UPGRADE_COST)
                     THEN /\ world' = [world EXCEPT !.money = world.money - TIDAL_UPGRADE_COST]
                          /\ turret_group' = SetSelected(tidally_upgrade(Selected, now))
                          /\ placement_message' =
                                MessageShown(placement_message, message_timer, now)
                          /\ UNCHANGED message_timer
                     ELSE /\ placement_message' = "Not enough money for tidal upgrade!"
                          /\ message_timer' = now
                          /\ UNCHANGED <<world, turret_group>>
              ELSE /\ placement_message' =
                         MessageShown(placement_message, message_timer, now)
                   /\ UNCHANGED <<world, turret_group, message_timer>>
       ELSE /\ placement_message' = "Start new round to tidally upgrade turret"
            /\ message_timer' = now
            /\ UNCHANGED <<world, turret_group>>
  /\ UNCHANGED <<fatal, state, game_status, wave_started,
                 last_enemy_spawn, placing_turrets, selected_turret, current_turret_type,
                 current_difficulty_index, selected_map,
                 occupied_tiles, enemy_group,
                 next_enemy_id, next_turret_id, kill_log, escape_log>>

\* int(self.turret_buy_costs.get(turret_type) * c.SELL_RETURN_RATE)
SellPrice(turret_type) ==
  (turret_buy_costs[turret_type] * SELL_RETURN_NUM) \div SELL_RETURN_DEN

\* a sell button that leaves the sold turret's tile marked as occupied
BtnSell_keeps_tile ==
  /\ ButtonsStep
  /\ HasSelected
  /\ Press("sell")
  /\ world' = [world EXCEPT !.money = world.money + SellPrice(Selected.turret_type)]
  /\ turret_group' = Remove(turret_group, TurretIndex(turret_group, selected_turret))
  /\ selected_turret' = None
  /\ placement_message' = "Turret sold successfully!"
  /\ message_timer' = now
  /\ UNCHANGED <<fatal, state, game_status, wave_started,
                 last_enemy_spawn, placing_turrets, current_turret_type,
                 current_difficulty_index, selected_map, occupied_tiles,
                 enemy_group, next_enemy_id, next_turret_id, kill_log, escape_log>>

\* a sell button that leaves the sold turret selected
BtnSell_keeps_selection ==
  /\ ButtonsStep
  /\ HasSelected
  /\ Press("sell")
  /\ world' = [world EXCEPT !.money = world.money + SellPrice(Selected.turret_type)]
  /\ turret_group' = Remove(turret_group, TurretIndex(turret_group, selected_turret))
  /\ occupied_tiles' = occupied_tiles \
        {(Selected.mouse_tile_y * COLS) + Selected.mouse_tile_x}
  /\ placement_message' = "Turret sold successfully!"
  /\ message_timer' = now
  /\ UNCHANGED <<fatal, state, game_status, wave_started, selected_turret,
                 last_enemy_spawn, placing_turrets, current_turret_type,
                 current_difficulty_index, selected_map,
                 enemy_group, next_enemy_id, next_turret_id, kill_log, escape_log>>

\* lines 944-970: the sell button
BtnSell ==
  /\ ButtonsStep
  /\ HasSelected
  /\ Press("sell")
  /\ world' = [world EXCEPT !.money = world.money + SellPrice(Selected.turret_type)]
  /\ turret_group' = Remove(turret_group, TurretIndex(turret_group, selected_turret))
  /\ occupied_tiles' = occupied_tiles \
        {(Selected.mouse_tile_y * COLS) + Selected.mouse_tile_x}
  /\ selected_turret' = None
  /\ placement_message' = "Turret sold successfully!"
  /\ message_timer' = now
  /\ UNCHANGED <<fatal, state, game_status, wave_started,
                 last_enemy_spawn, placing_turrets, current_turret_type,
                 current_difficulty_index, selected_map,
                 enemy_group, next_enemy_id, next_turret_id, kill_log, escape_log>>

\* lines 973-975: the back-to-menu button
BtnBack ==
  /\ ButtonsStep
  /\ Press("back")
  /\ restart_level
  /\ UNCHANGED <<fatal, current_difficulty_index, selected_map,
                 next_enemy_id, next_turret_id, kill_log, escape_log>>

\* lines 641-649 of skip_wave: the sum of damage_inflicted over the live enemies
RECURSIVE SkipPenalty(_)
SkipPenalty(group) ==
  IF group = <<>> THEN 0 ELSE Head(group).damage_inflicted + SkipPenalty(Tail(group))

\* line 978: the skip button is drawn
SkipOffered ==
  /\ world.spawned_enemies = Len(world.enemy_list)
  /\ Len(enemy_group) > 0

\* a skip_wave without the early return of lines 639-640
skip_wave_unguarded ==
  /\ enemy_group' = <<>>
  /\ EndWave([world EXCEPT !.health = world.health - SkipPenalty(enemy_group)],
             turret_group)

\* Game.skip_wave
skip_wave ==
  IF ~wave_started
    THEN UNCHANGED <<world, enemy_group, turret_group, wave_started,
                     last_enemy_spawn, fatal>>
    ELSE /\ enemy_group' = <<>>
         /\ EndWave([world EXCEPT !.health = world.health - SkipPenalty(enemy_group)],
                    turret_group)

\* lines 978-980 with Game.skip_wave
BtnSkip ==
  /\ ButtonsStep
  /\ SkipOffered
  /\ Press("skip")
  /\ skip_wave
  /\ placement_message' = MessageShown(placement_message, message_timer, now)
  /\ UNCHANGED <<state, game_status, placing_turrets, selected_turret, message_timer,
                 current_turret_type, current_difficulty_index, selected_map,
                 occupied_tiles, next_enemy_id, next_turret_id, kill_log, escape_log>>

\* Game.skip_wave called when draw_game does not offer the button, as a
\* caller other than the button does
CallSkipWave ==
  /\ ButtonsStep
  /\ ~SkipOffered
  /\ Press("skip_wave")
  /\ skip_wave
  /\ placement_message' = MessageShown(placement_message, message_timer, now)
  /\ UNCHANGED <<state, game_status, placing_turrets, selected_turret, message_timer,
                 current_turret_type, current_difficulty_index, selected_map,
                 occupied_tiles, next_enemy_id, next_turret_id, kill_log, escape_log>>

(***************************************************************************)
(* The session: any frame duration of FrameDurations, any click on a tile  *)
(* of ClickTiles, any button.                                              *)
(***************************************************************************)
FrameMs == 1000
MaxFrames == 7
MaxCommands == 5

\* tiles (mouse_tile_x, mouse_tile_y): two sand tiles by the path, a sand
\* tile far from it, a tile that is not sand
ClickTiles == {<<0, 0>>, <<1, 0>>, <<10, 0>>, <<0, 1>>}

Init == GameInit({FrameMs}, MaxFrames, MaxCommands)

Next ==
  \/ EvNone
  \/ \E map \in MapIds : EvSelectMap(map)
  \/ EvDifficulty
  \/ \E tile \in ClickTiles : EvPlaceTurret(tile[1], tile[2])
  \/ \E tile \in ClickTiles : EvSelectTurret(tile[1], tile[2])
  \/ Update
  \/ DrawOther
  \/ DrawSpawn
  \/ DrawBegin
  \/ DrawWaveCompleted
  \/ BtnNothing
  \/ \E turret_type \in TurretTypes : BtnTurretType(turret_type)
  \/ BtnCancel
  \/ BtnUpgrade
  \/ BtnTidal
  \/ BtnSell
  \/ BtnBack
  \/ BtnSkip

Spec == Init /\ [][Next]_vars

(***************************************************************************)
(* The defense of a wave: a player who selects the map, buys standard      *)
(* turrets for the two tiles by the path, begins the wave and may skip it, *)
(* on a machine whose frames last DefenseFrameMs.                          *)
(***************************************************************************)
DefenseFrameMs == 400
DefenseFrames == 10
DefenseCommands == 6

NearTiles == {<<0, 0>>, <<1, 0>>}

InitDefense == GameInit({DefenseFrameMs}, DefenseFrames, DefenseCommands)

NextDefense ==
  \/ EvNone
  \/ \E map \in MapIds : EvSelectMap(map)
  \/ \E tile \in NearTiles : EvPlaceTurret(tile[1], tile[2])
  \/ Update
  \/ DrawOther
  \/ DrawSpawn
  \/ DrawBegin
  \/ DrawWaveCompleted
  \/ BtnNothing
  \/ BtnTurretType("standard")
  \/ BtnSkip

SpecDefense == InitDefense /\ [][NextDefense]_vars

(***************************************************************************)
(* Properties of the enemy update.                                         *)
(***************************************************************************)
\* a step of Game.update that reaches enemy_group.update and turret_group.update
UpdatesEntities ==
  Update /\ state = "game" /\ world.health > 0 /\ world.level <= MAX_LEVELS

\* the kill rewards of the enemies of a group whose health is <= 0
RECURSIVE RewardsOfDead(_, _)
RewardsOfDead(group, i) ==
  IF i > Len(group) THEN 0
  ELSE (IF group[i].health <= 0 THEN ENEMY_DATA[group[i].enemy_type].kill_reward ELSE 0)
       + RewardsOfDead(group, i + 1)

\* the damage of the enemies of a group that are past waypoint n
RECURSIVE DamageAtEnd(_, _, _)
DamageAtEnd(group, i, n) ==
  IF i > Len(group) THEN 0
  ELSE (IF group[i].target_waypoint = n THEN group[i].damage_inflicted ELSE 0)
       + DamageAtEnd(group, i + 1, n)

InGroup(group, id) == \E i \in 1..Len(group) : group[i].id = id

\* C1: no enemy is counted both as killed (check_if_alive) and as escaped
\* (the end-of-path branch of move): the kill log and the escape log share
\* no enemy.
C1_KilledOrEscapedNotBoth ==
  \A i \in 1..Len(kill_log) : Count(escape_log, kill_log[i]) = 0

\* C2: within a wave killed_enemies + missed_enemies <= spawned_enemies and
\* spawned_enemies <= len(enemy_list).
C2_CountersOrdered ==
  world # NoWorld =>
    /\ world.killed_enemies + world.missed_enemies <= world.spawned_enemies
    /\ world.spawned_enemies <= Len(world.enemy_list)

\* C8 as stated: an enemy whose health is <= 0 has been counted as killed
\* by the end of the update of the tick in which its health reached <= 0,
\* so after Game.update no enemy of the live set has health <= 0.
C8_KilledInTheTickOfTheHit ==
  pc = "draw" => \A i \in 1..Len(enemy_group) : enemy_group[i].health > 0

\* C8 amended: an enemy is counted as killed at most once and only by
\* Game.update; an update of the entities counts exactly the enemies that
\* enter it with health <= 0 (their health was brought to <= 0 by a turret
\* in an earlier tick), once each, removes them from the live set, adds 1
\* to killed_enemies and the kill_reward to money for each of them; an enemy
\* of the live set has not been counted.
C8_KilledOnceInNextUpdate ==
  /\ [](\A id \in 1..(next_enemy_id - 1) :
          /\ Count(kill_log, id) <= 1
          /\ InGroup(enemy_group, id) => Count(kill_log, id) = 0)
  /\ [][kill_log' # kill_log => UpdatesEntities]_vars
  /\ [][UpdatesEntities =>
          /\ \A i \in 1..Len(enemy_group) :
               LET e == enemy_group[i]
               IN IF e.health <= 0
                    THEN /\ Count(kill_log', e.id) = Count(kill_log, e.id) + 1
                         /\ ~InGroup(enemy_group', e.id)
                    ELSE Count(kill_log', e.id) = Count(kill_log, e.id)
          /\ world'.killed_enemies = world.killed_enemies
               + Cardinality({i \in 1..Len(enemy_group) : enemy_group[i].health <= 0})
          /\ world'.money = world.money + RewardsOfDead(enemy_group, 1)]_vars

\* C8 witness: an enemy that did not reach the end of the path has been
\* counted as killed and paid for.
C8_Witness ==
  /\ \E i \in 1..Len(kill_log) : Count(escape_log, kill_log[i]) = 0
  /\ world.killed_enemies > 0
  /\ world.money > MONEY - 2 * turret_buy_costs.standard

\* C9: an enemy that enters an update with target_waypoint = len(waypoints)
\* is processed as escaped exactly once: that update subtracts its
\* damage_inflicted from world.health once, adds 1 to missed_enemies and
\* removes it from the live set, and it is never updated again.
C9_EscapedExactlyOnce ==
  /\ [](\A id \in 1..(next_enemy_id - 1) :
          /\ Count(escape_log, id) <= 1
          /\ InGroup(enemy_group, id) => Count(escape_log, id) = 0)
  /\ [][escape_log' # escape_log => UpdatesEntities]_vars
  /\ [][UpdatesEntities =>
          /\ \A i \in 1..Len(enemy_group) :
               LET e == enemy_group[i]
               IN IF e.target_waypoint = Len(Waypoints(selected_map))
                    THEN /\ Count(escape_log', e.id) = Count(escape_log, e.id) + 1
                         /\ ~InGroup(enemy_group', e.id)
                    ELSE Count(escape_log', e.id) = Count(escape_log, e.id)
          /\ world'.missed_enemies = world.missed_enemies
               + Cardinality({i \in 1..Len(enemy_group) :
                    enemy_group[i].target_waypoint = Len(Waypoints(selected_map))})
          /\ world'.health = world.health
               - DamageAtEnd(enemy_group, 1, Len(Waypoints(selected_map)))]_vars

\* C9 witness: an enemy has left the map, has been counted as missed and has
\* cost the player health.
C9_Witness ==
  /\ Len(escape_log) > 0
  /\ world.missed_enemies > 0
  /\ world.health < HEALTH
  /\ ~InGroup(enemy_group, escape_log[1])

\* C10: once killed_enemies + missed_enemies = len(enemy_list) holds, no
\* enemy is spawned until reset_values and process_enemies have run: no
\* step that spawns an enemy starts in a state where the wave is completed.
C10_NoSpawnOnceCompleted ==
  [][world # NoWorld /\ world' # NoWorld
       /\ world'.spawned_enemies = world.spawned_enemies + 1
     => ~is_wave_completed(world)]_vars

(***************************************************************************)
(* The tidal upgrade: a player who buys one standard turret, selects it,   *)
(* begins waves, presses the tidal upgrade button and may skip the wave,   *)
(* on a machine whose frames last TidalFrameMs, so that an upgrade expires *)
(* in the second frame after it was bought.                                *)
(***************************************************************************)
TidalFrameMs == 15000
TidalFrames == 8
TidalCommands == 7

InitTidal == GameInit({TidalFrameMs}, TidalFrames, TidalCommands)

NextTidal ==
  \/ EvNone
  \/ \E map \in MapIds : EvSelectMap(map)
  \/ EvPlaceTurret(0, 0)
  \/ EvSelectTurret(0, 0)
  \/ Update
  \/ DrawOther
  \/ DrawSpawn
  \/ DrawBegin
  \/ DrawWaveCompleted
  \/ BtnNothing
  \/ BtnTurretType("standard")
  \/ BtnTidal
  \/ BtnSkip

SpecTidal == InitTidal /\ [][NextTidal]_vars

\* C5: the tidal upgrade is available once per wave cycle: when a wave cycle
\* has been reset and the next wave has not begun, every turret is eligible
\* again (its tidal_used flag is clear).
C5_EligibleAgainAfterReset ==
  ~wave_started => \A i \in 1..Len(turret_group) : ~turret_group[i].tidal_used

\* C6: a tidal upgrade takes effect at most once on a turret: a turret
\* becomes tidal_active only from tidal_used = FALSE, an active turret has
\* tidal_used set, tidally_upgrade() leaves a turret whose tidal_used is set
\* as it is, and a press of the tidal button for such a turret, expired or
\* not, changes neither a turret nor the world (money included).
C6_SecondTidalNoEffect ==
  /\ [](\A i \in 1..Len(turret_group) :
          /\ turret_group[i].tidal_active => turret_group[i].tidal_used
          /\ turret_group[i].tidal_used =>
               tidally_upgrade(turret_group[i], now) = turret_group[i])
  /\ [][\A i \in 1..Len(turret_group) : \A j \in 1..Len(turret_group') :
          turret_group[i].id = turret_group'[j].id
            /\ ~turret_group[i].tidal_active /\ turret_group'[j].tidal_active
          => ~turret_group[i].tidal_used]_vars
  /\ [][BtnTidal /\ Selected.tidal_used
          => turret_group' = turret_group /\ world' = world]_vars

\* C6 witness: in a started wave the tidal button has been pressed for a
\* turret whose upgrade was used and has expired; it was paid for once.
C6_Witness ==
  /\ pc = "events" /\ clicked = "tidal"
  /\ wave_started
  /\ HasSelected
  /\ Selected.tidal_used /\ ~Selected.tidal_active
  /\ Selected.damage = Selected.base_damage
  /\ world.money = MONEY - turret_buy_costs.standard - TIDAL_UPGRADE_COST

(***************************************************************************)
(* Properties of a session of the whole game (Spec).                       *)
(***************************************************************************)
\* C3: when the last wave (level = MAX_LEVELS) is completed or skipped,
\* level becomes MAX_LEVELS + 1 and the game goes on to the win: the
\* program is still running, and after the next Game.update game_status is
\* 1 and state is "game_over".
C3_LastWaveLeadsToWin ==
  world.level = MAX_LEVELS + 1 =>
    /\ fatal = "none"
    /\ pc = "draw" /\ world.health > 0 => game_status = 1 /\ state = "game_over"

\* C4: the program never ends in a fatal error: no call of process_enemies
\* indexes WAVE_ENEMY_DATA outside 1 <= level <= len(WAVE_ENEMY_DATA).
C4_NoFatalError == fatal = "none"

(***************************************************************************)
(* Purchases: a player who buys standard and purple turrets for the two    *)
(* tiles by the path, selects one, begins the wave and presses the upgrade *)
(* and tidal upgrade buttons.                                              *)
(***************************************************************************)
PurchaseFrames == 9
PurchaseCommands == 8

InitPurchase == GameInit({FrameMs}, PurchaseFrames, PurchaseCommands)

NextPurchase ==
  \/ EvNone
  \/ \E map \in MapIds : EvSelectMap(map)
  \/ \E tile \in NearTiles : EvPlaceTurret(tile[1], tile[2])
  \/ EvSelectTurret(0, 0)
  \/ Update
  \/ DrawOther
  \/ DrawSpawn
  \/ DrawBegin
  \/ DrawWaveCompleted
  \/ BtnNothing
  \/ \E turret_type \in {"standard", "purple"} : BtnTurretType(turret_type)
  \/ BtnUpgrade
  \/ BtnTidal

SpecPurchase == InitPurchase /\ [][NextPurchase]_vars

\* C7: world.money is never negative, and a purchase (placement, upgrade,
\* tidal upgrade) attempted with money below its cost changes neither the
\* world nor a turret.
C7_MoneyNeverNegative ==
  /\ [](world.money >= 0)
  /\ [][\/ /\ \E tile \in ClickTiles : EvPlaceTurret(tile[1], tile[2])
           /\ world.money < turret_buy_costs[current_turret_type]
        \/ BtnUpgrade /\ world.money < UPGRADE_COST
        \/ BtnTidal /\ world.money < TIDAL_UPGRADE_COST
        => world' = world /\ turret_group' = turret_group]_vars

\* C7 witness: with all the money spent on two turrets, a tidal upgrade has
\* been refused for lack of money and has changed no turret.
C7_Witness ==
  /\ clicked = "tidal"
  /\ placement_message = "Not enough money for tidal upgrade!"
  /\ wave_started
  /\ Len(turret_group) = 2
  /\ \A i \in 1..Len(turret_group) :
       turret_group[i].turret_level = 1 /\ ~turret_group[i].tidal_used
  /\ world.money = 0


(***************************************************************************)
(* Firing: a player who selects map 2, buys standard turrets for the two   *)
(* tiles by the path, begins the wave and may skip it, for long enough to  *)
(* see a turret fire twice.                                                *)
(***************************************************************************)
FiringFrames == 17
FiringCommands == 5

InitFiring == GameInit({FrameMs}, FiringFrames, FiringCommands)

NextFiring ==
  \/ EvNone
  \/ EvSelectMap(2)
  \/ \E tile \in NearTiles : EvPlaceTurret(tile[1], tile[2])
  \/ Update
  \/ DrawOther
  \/ DrawSpawn
  \/ DrawBegin
  \/ DrawWaveCompleted
  \/ BtnNothing
  \/ BtnTurretType("standard")
  \/ BtnSkip

SpecFiring == InitFiring /\ [][NextFiring]_vars

(***************************************************************************)
(* Properties of the turret update.                                        *)
(***************************************************************************)
\* turret i of the group is in the group after the step, and what it is then
Stays(i) == TurretIndex(turret_group', turret_group[i].id) # 0

After(i) == turret_group'[TurretIndex(turret_group', turret_group[i].id)]

\* C11: a turret holds at most one target, and only between an acquisition
\* and the end of the following animation: a held target is never replaced
\* by another one, a target is acquired only by an idle turret (target
\* null, animation at frame 0) in an update of the entities, it is cleared
\* only by the update that shows the last animation frame, and that update
\* does clear it.
C11_TargetOnlyWhileFiring ==
  /\ [](\A i \in 1..Len(turret_group) :
          turret_group[i].target = None => turret_group[i].frame_index = 0)
  /\ [][\A i \in 1..Len(turret_group) : Stays(i) =>
          LET tu == turret_group[i]
              last == tu.frame_index = tu.animation_steps - 1
                        /\ now - tu.update_time > ANIMATION_DELAY
          IN /\ tu.target # None => After(i).target \in {tu.target, None}
             /\ tu.target # None /\ After(i).target = None =>
                  UpdatesEntities /\ last /\ After(i).frame_index = 0
             /\ tu.target # None /\ UpdatesEntities /\ last =>
                  After(i).target = None
             /\ tu.target = None /\ After(i).target # None =>
                  UpdatesEntities /\ InGroup(enemy_group', After(i).target)]_vars

\* C11 witness: in this frame's update a turret has shown the last frame of
\* its firing animation and is idle again.
C11_Witness ==
  /\ pc = "draw" /\ clicked # "place"
  /\ \E i \in 1..Len(turret_group) :
       /\ turret_group[i].target = None
       /\ turret_group[i].last_shot = now
       /\ turret_group[i].frame_index = 0

\* C12 as stated: a turret's target is cleared when the referenced enemy is
\* removed from the live set, so a non-null target is always a live enemy.
C12_TargetIsLive ==
  \A i \in 1..Len(turret_group) :
    turret_group[i].target # None => InGroup(enemy_group, turret_group[i].target)

\* C12 amended: the removal of the targeted enemy (killed, escaped, skipped)
\* does not clear the target: in the step in which that enemy leaves the
\* live set the turret keeps the reference, unless the same update shows the
\* last frame of its animation; a target is cleared by the end of the
\* animation only.  A held target is an enemy that was spawned, and a turret
\* acquires only an enemy of the live set.
C12_TargetKeptUntilAnimationEnds ==
  /\ [](\A i \in 1..Len(turret_group) :
          turret_group[i].target # None =>
            turret_group[i].target \in 1..(next_enemy_id - 1))
  /\ [][\A i \in 1..Len(turret_group) : Stays(i) =>
          LET tu == turret_group[i]
              last == tu.frame_index = tu.animation_steps - 1
                        /\ now - tu.update_time > ANIMATION_DELAY
          IN /\ tu.target # None /\ InGroup(enemy_group, tu.target)
                  /\ ~InGroup(enemy_group', tu.target)
                => After(i).target = tu.target \/ (UpdatesEntities /\ last)
             /\ tu.target # None /\ ~InGroup(enemy_group, tu.target)
                => After(i).target = tu.target \/ (UpdatesEntities /\ last)
             /\ tu.target = None /\ After(i).target # None
                => InGroup(enemy_group', After(i).target)]_vars

\* C12 witness: a turret in the middle of its animation holds a target that
\* is no longer in the live set.
C12_Witness ==
  \E i \in 1..Len(turret_group) :
    /\ turret_group[i].target # None
    /\ ~InGroup(enemy_group, turret_group[i].target)
    /\ turret_group[i].frame_index > 0
    /\ turret_group[i].frame_index < turret_group[i].animation_steps - 1

\* the enemy of a group with a given id
EnemyById(group, id) == group[CHOOSE k \in 1..Len(group) : group[k].id = id]

\* the damage dealt to enemy id in one update by the turrets before turret
\* i that acquired it in that update
RECURSIVE HitsBefore(_, _, _, _)
HitsBefore(before, after, i, id) ==
  IF i <= 1 THEN 0
  ELSE HitsBefore(before, after, i - 1, id)
       + (IF before[i - 1].target = None /\ after[i - 1].target = id
            THEN after[i - 1].damage ELSE 0)

\* C13: in a tick the enemies are updated before the turrets, so a turret
\* acquires and damages only an enemy that is in the live set before and
\* after the tick's enemy update (never one that was killed or has escaped,
\* in this tick or before) and whose health is still > 0 when the turret
\* acquires it; an enemy's health goes down in no other step.
C13_AcquiresLiveEnemiesOnly ==
  /\ [][UpdatesEntities =>
          /\ Len(turret_group') = Len(turret_group)
          /\ \A i \in 1..Len(turret_group) :
               turret_group[i].target = None /\ turret_group'[i].target # None =>
                 LET id == turret_group'[i].target
                 IN /\ InGroup(enemy_group, id)
                    /\ InGroup(enemy_group', id)
                    /\ Count(kill_log', id) = 0
                    /\ Count(escape_log', id) = 0
                    /\ EnemyById(enemy_group, id).health
                         - HPQ * HitsBefore(turret_group, turret_group', i, id) > 0]_vars
  /\ [][(\E k \in 1..Len(enemy_group) :
           /\ InGroup(enemy_group', enemy_group[k].id)
           /\ EnemyById(enemy_group', enemy_group[k].id).health < enemy_group[k].health)
        => UpdatesEntities]_vars

\* C13 witness: two turrets have acquired the same enemy in one update, the
\* second one while its health was still positive, and it is in the live
\* set with health <= 0.
C13_Witness ==
  /\ pc = "draw"
  /\ Len(turret_group) = 2
  /\ turret_group[1].target # None
  /\ turret_group[2].target = turret_group[1].target
  /\ turret_group[1].frame_index = 0 /\ turret_group[2].frame_index = 0
  /\ InGroup(enemy_group, turret_group[1].target)
  /\ EnemyById(enemy_group, turret_group[1].target).health <= 0

\* the square of the distance between a turret and an enemy, in position units
DistSq(tu, e) ==
  (e.pos[1] - tu.x * SUB) * (e.pos[1] - tu.x * SUB)
    + (e.pos[2] - tu.y * SUB) * (e.pos[2] - tu.y * SUB)

\* enemy k of the group after an update is within the range of turret i and
\* had health > 0 when turret i was updated
Qualifies(i, k) ==
  /\ DistSq(turret_group'[i], enemy_group'[k])
       < (turret_group'[i].range * SUB) * (turret_group'[i].range * SUB)
  /\ EnemyById(enemy_group, enemy_group'[k].id).health
       - HPQ * HitsBefore(turret_group, turret_group', i, enemy_group'[k].id) > 0

\* C14: when select_target runs (the turret is idle and its cooldown has
\* elapsed), the turret acquires the first enemy in the order of the live
\* set (the order of spawning) that is within its range with health > 0,
\* whatever the distances and healths of the others; if none qualifies it
\* stays idle; an enemy that no turret acquired keeps its health.
C14_FirstInSpawnOrder ==
  [][UpdatesEntities =>
       /\ \A i \in 1..Len(turret_group) :
            turret_group[i].target = None
              /\ now - turret_group[i].last_shot > turret_group'[i].cooldown
            => LET hits == {k \in 1..Len(enemy_group') : Qualifies(i, k)}
               IN IF hits = {}
                    THEN turret_group'[i].target = None
                    ELSE \E k \in hits :
                           /\ \A j \in hits : k <= j
                           /\ turret_group'[i].target = enemy_group'[k].id
       /\ \A k \in 1..Len(enemy_group') :
            (\A i \in 1..Len(turret_group) :
               ~(turret_group[i].target = None
                   /\ turret_group'[i].target = enemy_group'[k].id))
            => enemy_group'[k].health
                 = EnemyById(enemy_group, enemy_group'[k].id).health
       /\ \A k, j \in 1..Len(enemy_group') :
            k < j => enemy_group'[k].id < enemy_group'[j].id]_vars

\* C14 witness: a turret has just acquired, for the second time, the first
\* enemy of the live set (its health was below the second one's before the
\* hit and is <= 0 after it) although the second one is within range too
\* and nearer to the turret.
C14_Witness ==
  /\ pc = "draw"
  /\ Len(turret_group) = 1 /\ Len(enemy_group) = 2
  /\ turret_group[1].target = enemy_group[1].id
  /\ turret_group[1].frame_index = 0
  /\ DistSq(turret_group[1], enemy_group[2])
       < (turret_group[1].range * SUB) * (turret_group[1].range * SUB)
  /\ DistSq(turret_group[1], enemy_group[2]) < DistSq(turret_group[1], enemy_group[1])
  /\ enemy_group[2].health = enemy_group[2].max_health
  /\ enemy_group[1].health <= 0
  /\ enemy_group[1].health + HPQ * turret_group[1].damage < enemy_group[2].health

\* C15: an update of the entities reduces an enemy's health by the current
\* damage of each turret that acquires it in that update, once, and by
\* nothing else: a turret that is showing its animation deals no damage,
\* and no other step changes an enemy's health.  With one level-1 standard
\* turret (damage 5) an enemy has lost nothing, 5 or 10 health, so a weak
\* enemy (health 10) is at health <= 0 after exactly two acquisitions.
C15_DamageOncePerCycle ==
  /\ [][UpdatesEntities =>
          \A k \in 1..Len(enemy_group') :
            enemy_group'[k].health =
              EnemyById(enemy_group, enemy_group'[k].id).health
                - HPQ * HitsBefore(turret_group, turret_group',
                                   Len(turret_group) + 1, enemy_group'[k].id)]_vars
  /\ [][(\E k \in 1..Len(enemy_group) :
           /\ InGroup(enemy_group', enemy_group[k].id)
           /\ EnemyById(enemy_group', enemy_group[k].id).health # enemy_group[k].health)
        => UpdatesEntities]_vars
  /\ [](Len(turret_group) <= 1 =>
          \A k \in 1..Len(enemy_group) :
            \E n \in 0..2 :
              enemy_group[k].health =
                enemy_group[k].max_health - n * HPQ * TURRET_DATA.standard[1].damage)

\* C15 witness: a level-1 standard turret has acquired a weak enemy for the
\* second time, after the cooldown that followed its first animation, and
\* the enemy's health is 0.
C15_Witness ==
  /\ pc = "draw"
  /\ Len(turret_group) = 1
  /\ turret_group[1].frame_index = 0
  /\ turret_group[1].damage = 5
  /\ InGroup(enemy_group, turret_group[1].target)
  /\ LET e == EnemyById(enemy_group, turret_group[1].target)
     IN /\ e.enemy_type = "weak"
        /\ e.max_health = 10 * HPQ
        /\ e.health = 0
  /\ now - turret_group[1].last_shot > turret_group[1].cooldown
  /\ turret_group[1].last_shot = turret_group[1].update_time

\* C16: the cooldown counts from the end of the firing animation: last_shot
\* changes only in the update that shows the last animation frame and
\* clears the target, and becomes the current time; a turret is created
\* with last_shot = the time of the frame that places it and no target; and a turret
\* acquires a target only when now - last_shot > cooldown.
C16_CooldownFromCompletion ==
  /\ [][\A i \in 1..Len(turret_group) : Stays(i) =>
          LET tu == turret_group[i]
          IN /\ After(i).last_shot # tu.last_shot =>
                  /\ UpdatesEntities
                  /\ tu.target # None /\ After(i).target = None
                  /\ tu.frame_index = tu.animation_steps - 1
                  /\ After(i).last_shot = now
             /\ tu.target = None /\ After(i).target # None =>
                  /\ now - tu.last_shot > After(i).cooldown
                  /\ After(i).last_shot = tu.last_shot]_vars
  /\ [][next_turret_id' # next_turret_id =>
          /\ Len(turret_group') = Len(turret_group) + 1
          /\ turret_group'[Len(turret_group')].id = next_turret_id
          /\ turret_group'[Len(turret_group')].last_shot = now'
          /\ turret_group'[Len(turret_group')].target = None]_vars

\* C16 witness: a turret whose animation ended two frames ago has acquired
\* a target again, in the first update with more than its cooldown elapsed.
C16_Witness ==
  /\ pc = "draw"
  /\ \E i \in 1..Len(turret_group) :
       LET tu == turret_group[i]
       IN /\ tu.target # None /\ tu.frame_index = 0
          /\ now - tu.last_shot > tu.cooldown
          /\ now - tu.last_shot - frame_ms <= tu.cooldown
          /\ InGroup(enemy_group, tu.target)
          /\ EnemyById(enemy_group, tu.target).health
               = EnemyById(enemy_group, tu.target).max_health - 2 * HPQ * tu.damage

\* ---------------------------------------------------------------------------
\* Properties of the upgrade commands
\* ---------------------------------------------------------------------------

\* C17: while the selected turret's tidal upgrade is active, a press of the
\* upgrade button changes nothing but the feedback message and its timer:
\* the money and the rest of the world, every turret (level, base stats,
\* current stats) and every other part of the game stay as they were.
C17_UpgradeRejectedWhileTidal ==
  [][BtnUpgrade /\ Selected.tidal_active =>
       /\ placement_message' = "You can't upgrade turret, while it's tidally upgraded"
       /\ message_timer' = now
       /\ UNCHANGED <<world, turret_group, enemy_group, occupied_tiles,
                      selected_turret, wave_started, state, game_status,
                      placing_turrets, current_turret_type, fatal>>]_vars

\* C17 witness: the upgrade button was pressed on a tidally upgraded level-1
\* turret by a player who could pay for the upgrade, and was refused.
C17_Witness ==
  /\ clicked = "upgrade"
  /\ HasSelected
  /\ Selected.tidal_active
  /\ Selected.turret_level = 1
  /\ Selected.range > Selected.base_range
  /\ world.money >= UPGRADE_COST
  /\ placement_message = "You can't upgrade turret, while it's tidally upgraded"

\* C18: a turret's level lies in 1..len(TURRET_DATA[kind]); it never
\* decreases and changes only by one, in a press of the upgrade button
\* that takes UPGRADE_COST; upgrade() at the maximum level changes nothing;
\* and a press of the upgrade button either takes UPGRADE_COST and raises
\* the selected turret's level by exactly one, or leaves money and turrets
\* as they were.
C18_LevelBoundedAndPaid ==
  /\ [](\A i \in 1..Len(turret_group) :
          LET tu == turret_group[i]
          IN /\ tu.turret_level \in 1..Len(TURRET_DATA[tu.turret_type])
             /\ tu.turret_level = Len(TURRET_DATA[tu.turret_type]) => upgrade(tu) = tu)
  /\ [][\A i \in 1..Len(turret_group) : Stays(i) =>
          /\ After(i).turret_level >= turret_group[i].turret_level
          /\ After(i).turret_level # turret_group[i].turret_level =>
               /\ BtnUpgrade
               /\ turret_group[i].id = selected_turret
               /\ After(i).turret_level = turret_group[i].turret_level + 1
               /\ world'.money = world.money - UPGRADE_COST]_vars
  /\ [][BtnUpgrade =>
          \/ /\ world' = [world EXCEPT !.money = world.money - UPGRADE_COST]
             /\ world.money >= UPGRADE_COST
             /\ Len(turret_group') = Len(turret_group)
             /\ \A i \in 1..Len(turret_group) :
                  IF turret_group[i].id = selected_turret
                    THEN turret_group'[i].turret_level = turret_group[i].turret_level + 1
                    ELSE turret_group'[i] = turret_group[i]
          \/ world' = world /\ turret_group' = turret_group]_vars

\* C18 witness: the last paid upgrade has brought the selected turret to
\* the maximum level of its kind.
C18_Witness ==
  /\ clicked = "upgrade"
  /\ HasSelected
  /\ Selected.turret_level = Len(TURRET_DATA[Selected.turret_type])
  /\ Selected.turret_level > 1
  /\ placement_message = "Turret upgraded successfully!"

\* ---------------------------------------------------------------------------
\* Properties of the tidal upgrade
\* ---------------------------------------------------------------------------

\* v is x * TIDAL_MULTIPLIER cut to an integer
IsTidalValue(v, x) ==
  v * TIDAL_MULT_DEN <= x * TIDAL_MULT_NUM /\ x * TIDAL_MULT_NUM < (v + 1) * TIDAL_MULT_DEN

\* C19: a press of the tidal button that takes effect sets the selected
\* turret's range and damage to int(base * TIDAL_MULTIPLIER), 125 and 6 for
\* a level-1 standard turret, leaves its cooldown, and lets the upgrade end
\* at now + TIDAL_DURATION; an active upgrade keeps these values in every
\* update before that time, and the first update at or after it brings
\* range and damage back to the base values.
C19_TidalValuesAndExpiry ==
  /\ [][BtnTidal /\ turret_group' # turret_group =>
          LET tu == Selected
              up == turret_group'[TurretIndex(turret_group, selected_turret)]
          IN /\ ~tu.tidal_active /\ up.tidal_active
             /\ IsTidalValue(up.range, tu.base_range)
             /\ IsTidalValue(up.damage, tu.base_damage)
             /\ tu.turret_type = "standard" /\ tu.turret_level = 1 =>
                  /\ tu.range = 100 /\ tu.damage = 5
                  /\ up.range = 125 /\ up.damage = 6
             /\ up.cooldown = tu.cooldown
             /\ up.base_range = tu.base_range /\ up.base_damage = tu.base_damage
             /\ up.tidal_end_time = now + TIDAL_DURATION]_vars
  /\ [][UpdatesEntities =>
          \A i \in 1..Len(turret_group) : Stays(i) /\ turret_group[i].tidal_active =>
            LET tu == turret_group[i]
            IN IF now >= tu.tidal_end_time
                 THEN /\ ~After(i).tidal_active
                      /\ After(i).range = tu.base_range
                      /\ After(i).damage = tu.base_damage
                 ELSE /\ After(i).tidal_active
                      /\ After(i).range = tu.range
                      /\ After(i).damage = tu.damage]_vars
  /\ [](\A i \in 1..Len(turret_group) :
          LET tu == turret_group[i]
          IN IF tu.tidal_active
               THEN /\ IsTidalValue(tu.range, tu.base_range)
                    /\ IsTidalValue(tu.damage, tu.base_damage)
                    /\ tu.tidal_end_time <= now + TIDAL_DURATION
               ELSE tu.range = tu.base_range /\ tu.damage = tu.base_damage)

\* C19 witness: in the first wave, still running, a level-1 standard turret
\* that was tidally upgraded is back at range 100 and damage 5.
C19_Witness ==
  /\ pc = "draw"
  /\ world.level = 1 /\ wave_started
  /\ \E i \in 1..Len(turret_group) :
       LET tu == turret_group[i]
       IN /\ tu.turret_type = "standard" /\ tu.turret_level = 1
          /\ tu.tidal_used /\ ~tu.tidal_active
          /\ tu.range = 100 /\ tu.damage = 5

\* after is tu with range, damage and cooldown at the base values, the
\* tidal upgrade not active, its end time cleared, and nothing else changed
IsResetOf(after, tu) ==
  /\ after.range = tu.base_range
  /\ after.damage = tu.base_damage
  /\ after.cooldown = tu.base_cooldown
  /\ ~after.tidal_active
  /\ after.tidal_used = tu.tidal_used
  /\ after.turret_level = tu.turret_level
  /\ after.base_range = tu.base_range
  /\ after.base_damage = tu.base_damage
  /\ after.base_cooldown = tu.base_cooldown
  /\ after = [tu EXCEPT !.range = after.range, !.damage = after.damage,
                        !.cooldown = after.cooldown, !.tidal_active = FALSE,
                        !.tidal_end_time = 0]

\* C20: reset_tidal_upgrade sets range, damage and cooldown to the base
\* values and clears tidal_active, and keeps tidal_used, the level and the
\* base stats; a step that ends a wave (wave completion or skip) either
\* stops with the IndexError of process_enemies or leaves every turret as
\* its reset; the update of an expired turret leaves it with range, damage
\* and cooldown of its reset; and tidal_used, once set, stays set.
C20_ResetKeepsUsedFlag ==
  /\ [](\A i \in 1..Len(turret_group) :
          IsResetOf(reset_tidal_upgrade(turret_group[i]), turret_group[i]))
  /\ [][(DrawWaveCompleted \/ BtnSkip) /\ wave_started /\ ~wave_started' =>
          \/ fatal' = "IndexError"
          \/ /\ Len(turret_group') = Len(turret_group)
             /\ \A i \in 1..Len(turret_group) :
                  IsResetOf(turret_group'[i], turret_group[i])]_vars
  /\ [][\A i \in 1..Len(turret_group) :
          Stays(i) /\ turret_group[i].tidal_active /\ ~After(i).tidal_active =>
            /\ After(i).range = turret_group[i].base_range
            /\ After(i).damage = turret_group[i].base_damage
            /\ After(i).cooldown = turret_group[i].base_cooldown
            /\ After(i).tidal_end_time = 0
            /\ After(i).tidal_used
            /\ After(i).turret_level = turret_group[i].turret_level
            /\ After(i).base_range = turret_group[i].base_range
            /\ After(i).base_damage = turret_group[i].base_damage
            /\ After(i).base_cooldown = turret_group[i].base_cooldown]_vars
  /\ [][\A i \in 1..Len(turret_group) :
          Stays(i) /\ turret_group[i].tidal_used => After(i).tidal_used]_vars

\* C20 witness: the first wave was skipped one frame after the tidal
\* upgrade of a turret, which is at its base values and still marked used.
C20_Witness ==
  /\ clicked = "skip"
  /\ world.level = 2 /\ ~wave_started /\ enemy_group = <<>>
  /\ \E i \in 1..Len(turret_group) :
       LET tu == turret_group[i]
       IN /\ tu.tidal_used /\ ~tu.tidal_active
          /\ tu.range = tu.base_range /\ tu.damage = tu.base_damage
          /\ tu.cooldown = tu.base_cooldown
          /\ now - tu.last_shot <= 4 * frame_ms

\* ---------------------------------------------------------------------------
\* Properties of skip_wave
\* ---------------------------------------------------------------------------

\* roster is an order of the composition table's entry for wave n
IsRosterOf(roster, n) ==
  /\ n \in DOMAIN WAVE_ENEMY_DATA
  /\ Len(roster) = Len(Expand(WAVE_ENEMY_DATA[n], 1))
  /\ \A k \in DOMAIN EnemyTypeOrder :
       Cardinality({i \in 1..Len(roster) : roster[i] = EnemyTypeOrder[k]})
         = WAVE_ENEMY_DATA[n][EnemyTypeOrder[k]]

\* C21: a skip during a started wave removes every live enemy, counts no
\* kill and pays no kill reward, takes the sum of the removed enemies'
\* damage_inflicted from world.health, pays WAVE_COMPLETE_REWARD once, and
\* resets as a completed wave does: wave_started false, level + 1, the
\* counters cleared, the roster of the new level built and every turret's
\* tidal upgrade reset.
C21_SkipEndsTheWave ==
  [][BtnSkip /\ wave_started =>
       /\ enemy_group' = <<>>
       /\ kill_log' = kill_log /\ escape_log' = escape_log
       /\ world'.health = world.health - SkipPenalty(enemy_group)
       /\ world'.money = world.money + WAVE_COMPLETE_REWARD
       /\ ~wave_started'
       /\ world'.level = world.level + 1
       /\ world'.spawned_enemies = 0
       /\ world'.killed_enemies = 0
       /\ world'.missed_enemies = 0
       /\ IsRosterOf(world'.enemy_list, world'.level)
       /\ Len(turret_group') = Len(turret_group)
       /\ \A i \in 1..Len(turret_group) : IsResetOf(turret_group'[i], turret_group[i])
       /\ fatal' = "none"]_vars

(***************************************************************************)
(* A session in which skip_wave is also called directly, at any time the   *)
(* button is not offered: between waves, and before the roster is spawned. *)
(***************************************************************************)
SkipFrames == 7
SkipCommands == 6

InitSkip == GameInit({FrameMs}, SkipFrames, SkipCommands)

NextSkip ==
  \/ EvNone
  \/ \E map \in MapIds : EvSelectMap(map)
  \/ EvPlaceTurret(0, 0)
  \/ Update
  \/ DrawOther
  \/ DrawSpawn
  \/ DrawBegin
  \/ DrawWaveCompleted
  \/ BtnNothing
  \/ BtnTurretType("standard")
  \/ BtnSkip
  \/ CallSkipWave

SpecSkip == InitSkip /\ [][NextSkip]_vars

\* C22: skip_wave called while no wave is started changes nothing: world
\* (health, money, level, counters, roster), the live enemies, the turrets
\* and wave_started stay as they were; and the skip button is pressed only
\* when every roster entry has been spawned and an enemy is live.
C22_SkipOnlyDuringAWave ==
  /\ [][(BtnSkip \/ CallSkipWave) /\ ~wave_started =>
          /\ UNCHANGED <<world, enemy_group, turret_group, wave_started,
                         last_enemy_spawn, fatal, state, game_status,
                         occupied_tiles, selected_turret, kill_log, escape_log>>]_vars
  /\ [][clicked' = "skip" /\ clicked # "skip" =>
          /\ world.spawned_enemies = Len(world.enemy_list)
          /\ Len(enemy_group) > 0]_vars

\* C22 witness: skip_wave was called between the first wave and the second,
\* with a turret on the map.
C22_Witness ==
  /\ clicked = "skip_wave"
  /\ state = "game"
  /\ ~wave_started
  /\ world.level = 2
  /\ world.spawned_enemies = 0
  /\ Len(world.enemy_list) = WaveSize
  /\ Len(turret_group) = 1
  /\ fatal = "none"

\* ---------------------------------------------------------------------------
\* Properties of the rejected commands
\* ---------------------------------------------------------------------------

\* C23: a placement click, a press of the upgrade button or a press of the
\* tidal button by a player whose money is below the command's cost
\* changes the feedback message and its timer only: the world, the turrets
\* (level, stats, tidal flags), the occupied tiles and the placement mode
\* stay as they were, and the message of a refused placement or upgrade
\* says that the money is missing.
C23_NoMoneyNoChange ==
  /\ [][clicked' = "place" /\ clicked # "place"
          /\ world.money < turret_buy_costs[current_turret_type] =>
          /\ placement_message' = "Not enough money to place turret!"
          /\ message_timer' = now'
          /\ UNCHANGED <<world, turret_group, occupied_tiles, next_turret_id,
                         placing_turrets, selected_turret, current_turret_type,
                         enemy_group, wave_started, state>>]_vars
  /\ [][BtnUpgrade /\ world.money < UPGRADE_COST =>
          /\ ~Selected.tidal_active =>
               placement_message' = "Not enough money to upgrade turret!"
          /\ message_timer' = now
          /\ UNCHANGED <<world, turret_group, occupied_tiles, next_turret_id,
                         placing_turrets, selected_turret, current_turret_type,
                         enemy_group, wave_started, state>>]_vars
  /\ [][BtnTidal /\ world.money < TIDAL_UPGRADE_COST =>
          /\ wave_started /\ TidalEligible(Selected) =>
               /\ placement_message' = "Not enough money for tidal upgrade!"
               /\ message_timer' = now
          /\ UNCHANGED <<world, turret_group, occupied_tiles, next_turret_id,
                         placing_turrets, selected_turret, current_turret_type,
                         enemy_group, wave_started, state>>]_vars

\* C23 witness: after the purchase of a purple turret the 200 left do not
\* pay for a second one, and the click on a free sand tile was refused.
C23_Witness ==
  /\ clicked = "place"
  /\ placement_message = "Not enough money to place turret!"
  /\ placing_turrets
  /\ current_turret_type = "purple"
  /\ world.money = MONEY - turret_buy_costs["purple"]
  /\ Len(turret_group) = 1
  /\ Cardinality(occupied_tiles) = 1

\* C23, second witness of the same claim's case: an upgrade was refused to
\* a player who has spent all the money on two turrets.
C23_UpgradeRefused ==
  /\ clicked = "upgrade"
  /\ placement_message = "Not enough money to upgrade turret!"
  /\ world.money < UPGRADE_COST
  /\ HasSelected /\ Selected.turret_level = 1

\* the tile number of a tile (mouse_tile_x, mouse_tile_y)
TileNum(tile) == (tile[2] * COLS) + tile[1]

\* C24: a placement click on a tile that is not sand, or on a tile that
\* holds a turret, adds no turret, takes no money and leaves the occupied
\* tiles and the placement mode as they were, whatever the player's money;
\* a click that adds a turret is a click on a free sand tile by a player
\* who can pay, adds one turret of the chosen kind on that tile, marks the
\* tile occupied and takes the price once.  The occupied tiles are always
\* the tiles of the turrets, one turret a tile, all of them sand.
C24_PlacementOnFreeSandOnly ==
  /\ [][\A tile \in ClickTiles : EvPlaceTurret(tile[1], tile[2]) =>
          IF TileNum(tile) \in SandTiles(selected_map) /\ TileNum(tile) \notin occupied_tiles
               /\ world.money >= turret_buy_costs[current_turret_type]
            THEN /\ Len(turret_group') = Len(turret_group) + 1
                 /\ \A i \in 1..Len(turret_group) : turret_group'[i] = turret_group[i]
                 /\ LET tu == turret_group'[Len(turret_group')]
                    IN /\ tu.mouse_tile_x = tile[1] /\ tu.mouse_tile_y = tile[2]
                       /\ tu.turret_type = current_turret_type
                       /\ tu.turret_level = 1
                 /\ occupied_tiles' = occupied_tiles \cup {TileNum(tile)}
                 /\ world' = [world EXCEPT
                                !.money = world.money - turret_buy_costs[current_turret_type]]
                 /\ ~placing_turrets'
                 /\ placement_message' = "Turret placed successfully!"
            ELSE /\ UNCHANGED <<world, turret_group, occupied_tiles, next_turret_id,
                                placing_turrets, selected_turret, enemy_group>>
                 /\ world.money >= turret_buy_costs[current_turret_type] =>
                      placement_message' =
                        IF TileNum(tile) \notin SandTiles(selected_map)
                          THEN "Invalid placement area."
                          ELSE "Tile is already occupied!"]_vars
  /\ [](/\ occupied_tiles =
            {TileNum(<<turret_group[i].mouse_tile_x, turret_group[i].mouse_tile_y>>) :
               i \in 1..Len(turret_group)}
        /\ Cardinality(occupied_tiles) = Len(turret_group)
        /\ selected_map # None => occupied_tiles \subseteq SandTiles(selected_map))

\* C24 witness: with a turret on the map and money for another, a click on
\* the turret's tile was refused.
C24_Witness ==
  /\ clicked = "place"
  /\ placement_message = "Tile is already occupied!"
  /\ placing_turrets
  /\ Len(turret_group) = 1
  /\ world.money = MONEY - turret_buy_costs[turret_group[1].turret_type]
  /\ world.money >= turret_buy_costs[current_turret_type]

\* C24, the other rejection: a click on a tile that is not sand was refused
\* to a player with money for the turret.
C24_NotSandRefused ==
  /\ clicked = "place"
  /\ placement_message = "Invalid placement area."
  /\ placing_turrets
  /\ turret_group = <<>>
  /\ world.money = MONEY

(***************************************************************************)
(* Slowing: a player who selects map 2, buys the one purple turret the     *)
(* money pays for and begins the wave, on a machine with                   *)
(* frames of 400 ms, so that a slow of 500 ms outlasts one update.  The    *)
(* model's money buys one purple turret of level 1; the hit of a second    *)
(* purple turret, of any level, on the first enemy is the call             *)
(* CallApplySlow of Enemy.apply_slow, made after the frame's update.       *)
(***************************************************************************)
SlowFrameMs == 400
SlowFrames == 11
SlowCommands == 5

\* enemy.apply_slow(self.slow_amount, self.slow_duration) of a purple turret
\* of the level, on the i-th enemy of the group
CallApplySlow(i, level) ==
  /\ fatal = "none"
  /\ pc = "draw"
  /\ state = "game"
  /\ i \in 1..Len(enemy_group)
  /\ clicked = ""
  /\ Command
  /\ clicked' = "apply_slow"
  /\ enemy_group' =
       [enemy_group EXCEPT ![i] =
          apply_slow(enemy_group[i], TURRET_DATA.purple[level].slow_amount_x10,
                     TURRET_DATA.purple[level].slow_duration, now)]
  /\ UNCHANGED <<now, frame_ms, frames_left, pc, fatal,
                 state, game_status, wave_started, last_enemy_spawn, placing_turrets,
                 selected_turret, placement_message, message_timer, current_turret_type,
                 current_difficulty_index, selected_map, occupied_tiles,
                 world, turret_group, next_enemy_id, next_turret_id,
                 kill_log, escape_log>>

InitSlow == GameInit({SlowFrameMs}, SlowFrames, SlowCommands)

NextSlow ==
  \/ EvNone
  \/ EvSelectMap(2)
  \/ EvPlaceTurret(0, 0)
  \/ Update
  \/ DrawOther
  \/ DrawSpawn
  \/ DrawBegin
  \/ DrawWaveCompleted
  \/ BtnNothing
  \/ BtnTurretType("purple")
  \/ \E level \in DOMAIN TURRET_DATA.purple : CallApplySlow(1, level)

SpecSlow == InitSlow /\ [][NextSlow]_vars

\* ---------------------------------------------------------------------------
\* Properties of the slow effect
\* ---------------------------------------------------------------------------

\* the enemy of the group before the step is in the group after it
EnemyStays(i) == InGroup(enemy_group', enemy_group[i].id)

\* that enemy after the step
EnemyAfter(i) == EnemyById(enemy_group', enemy_group[i].id)

\* the step is an update in which the slow of the enemy runs out
SlowExpires(e) == UpdatesEntities /\ e.is_slowed /\ now > e.slow_timer

\* C25: apply_slow on a slowed enemy changes nothing, whatever the amount
\* and the duration; on an enemy that is not slowed it sets speed to
\* original_speed * (1 - amount) and the expiry to now + duration.  In the
\* game, a slowed enemy keeps its speed and its expiry in every step but
\* the update in which the slow runs out, calls of apply_slow and hits of
\* the purple turret included, and an enemy becomes slowed with the speed
\* and the expiry of the slow passed.
C25_SlowNeitherStacksNorRefreshes ==
  /\ [](\A i \in 1..Len(enemy_group) :
          \A level \in DOMAIN TURRET_DATA.purple, d \in {0, frame_ms} :
            LET e      == enemy_group[i]
                amount == TURRET_DATA.purple[level].slow_amount_x10
                dur    == TURRET_DATA.purple[level].slow_duration
                after  == apply_slow(e, amount, dur, now + d)
            IN IF e.is_slowed
                 THEN after = e
                 ELSE /\ after.is_slowed
                      /\ after.speed * 10 = e.original_speed * (10 - amount)
                      /\ after.slow_timer = now + d + dur
                      /\ after = [e EXCEPT !.is_slowed = TRUE, !.speed = after.speed,
                                           !.slow_timer = after.slow_timer])
  /\ [][\A i \in 1..Len(enemy_group) :
          LET e == enemy_group[i]
          IN EnemyStays(i) /\ e.is_slowed /\ ~SlowExpires(e) =>
               /\ EnemyAfter(i).is_slowed
               /\ EnemyAfter(i).speed = e.speed
               /\ EnemyAfter(i).slow_timer = e.slow_timer]_vars
  /\ [][\A i \in 1..Len(enemy_group), level \in DOMAIN TURRET_DATA.purple :
          CallApplySlow(i, level) =>
            IF enemy_group[i].is_slowed
              THEN enemy_group' = enemy_group
              ELSE /\ enemy_group'[i].speed * 10 = enemy_group[i].original_speed
                        * (10 - TURRET_DATA.purple[level].slow_amount_x10)
                   /\ enemy_group'[i].slow_timer
                        = now + TURRET_DATA.purple[level].slow_duration]_vars

\* C25 witness: apply_slow was called on an enemy that the purple turret
\* had slowed by 0.3 for 500 ms in the update of the frame before; the
\* enemy has the speed and the expiry of that first slow.
C25_Witness ==
  /\ clicked = "apply_slow"
  /\ pc = "draw"
  /\ Len(turret_group) = 1
  /\ \E i \in 1..Len(enemy_group) :
       LET e == enemy_group[i]
       IN /\ e.is_slowed
          /\ e.slow_timer = now - frame_ms + TURRET_DATA.purple[1].slow_duration
          /\ e.speed * 10 = e.original_speed * (10 - TURRET_DATA.purple[1].slow_amount_x10)
          /\ e.health = e.max_health - HPQ * TURRET_DATA.purple[1].damage

\* speed is original_speed * (1 - slow_amount) for the slow of a purple level
IsSlowedSpeed(speed, original_speed) ==
  \E level \in DOMAIN TURRET_DATA.purple :
    speed * 10 = original_speed * (10 - TURRET_DATA.purple[level].slow_amount_x10)

\* C26: a live enemy's speed is at most its original_speed: it is
\* original_speed while the enemy is not slowed, and original_speed *
\* (1 - amount) of a slow while it is; an update at which now <= expiry
\* leaves a slowed enemy slowed, and the first update at which now > expiry
\* clears is_slowed and restores original_speed (unless a turret slows the
\* enemy anew in that update, until later than now).
C26_SpeedAtMostOriginal ==
  /\ [](\A i \in 1..Len(enemy_group) :
          LET e == enemy_group[i]
          IN /\ e.speed <= e.original_speed
             /\ e.speed > 0
             /\ IF e.is_slowed
                  THEN IsSlowedSpeed(e.speed, e.original_speed)
                  ELSE e.speed = e.original_speed)
  /\ [][\A i \in 1..Len(enemy_group) :
          LET e == enemy_group[i]
          IN UpdatesEntities /\ EnemyStays(i) /\ e.is_slowed =>
               IF now > e.slow_timer
                 THEN \/ ~EnemyAfter(i).is_slowed /\ EnemyAfter(i).speed = e.original_speed
                      \/ EnemyAfter(i).is_slowed /\ EnemyAfter(i).slow_timer > now
                 ELSE /\ EnemyAfter(i).is_slowed
                      /\ EnemyAfter(i).speed = e.speed
                      /\ EnemyAfter(i).slow_timer = e.slow_timer]_vars
  /\ [][\A i \in 1..Len(enemy_group) :
          EnemyStays(i) /\ enemy_group[i].is_slowed /\ ~EnemyAfter(i).is_slowed =>
            UpdatesEntities /\ now > enemy_group[i].slow_timer]_vars

\* C26 witness: an enemy slowed by the purple turret's hit was still slowed
\* after the update of the last frame and has its original speed after
\* this frame's update, the first later than the expiry.
C26_Witness ==
  /\ pc = "draw"
  /\ \E i \in 1..Len(enemy_group) :
       LET e == enemy_group[i]
       IN /\ ~e.is_slowed
          /\ e.speed = e.original_speed
          /\ e.slow_timer > 0
          /\ now > e.slow_timer
          /\ now - frame_ms <= e.slow_timer
          /\ e.health < e.max_health

(***************************************************************************)
(* Walking: a player who selects map 3 and begins the wave, and places no  *)
(* turret, for long enough to see an enemy walk the 200 pixels of the path *)
(* and leave the map.                                                      *)
(***************************************************************************)
WalkFrames == 207
WalkCommands == 2

InitWalk == GameInit({FrameMs}, WalkFrames, WalkCommands)

NextWalk ==
  \/ EvNone
  \/ EvSelectMap(3)
  \/ Update
  \/ DrawOther
  \/ DrawSpawn
  \/ DrawBegin
  \/ DrawWaveCompleted
  \/ BtnNothing

SpecWalk == InitWalk /\ [][NextWalk]_vars

\* ---------------------------------------------------------------------------
\* Properties of Enemy.move
\* ---------------------------------------------------------------------------

\* C27: an enemy's target_waypoint is 1 when it is spawned, stays within
\* 1..len(waypoints), never decreases, and goes up by one only in an update
\* that leaves the enemy exactly on the waypoint it was heading for.
C27_PathIndexMonotone ==
  /\ [](\A i \in 1..Len(enemy_group) :
          enemy_group[i].target_waypoint \in 1..Len(Waypoints(selected_map)))
  /\ [][next_enemy_id' # next_enemy_id =>
          /\ Len(enemy_group') = Len(enemy_group) + 1
          /\ enemy_group'[Len(enemy_group')].id = next_enemy_id
          /\ enemy_group'[Len(enemy_group')].target_waypoint = 1
          /\ enemy_group'[Len(enemy_group')].pos = Waypoints(selected_map)[1]]_vars
  /\ [][\A i \in 1..Len(enemy_group) : EnemyStays(i) =>
          LET e == enemy_group[i]
          IN \/ EnemyAfter(i).target_waypoint = e.target_waypoint
             \/ /\ EnemyAfter(i).target_waypoint = e.target_waypoint + 1
                /\ UpdatesEntities
                /\ EnemyAfter(i).pos = Waypoints(selected_map)[e.target_waypoint + 1]]_vars

\* C27 witness: an enemy has passed the second waypoint of the three and
\* is on its way along the second leg.
C27_Witness ==
  /\ selected_map = 3
  /\ \E i \in 1..Len(enemy_group) :
       /\ enemy_group[i].target_waypoint = 2
       /\ enemy_group[i].pos[2] > Waypoints(3)[2][2]

\* the length of the path from its first waypoint to waypoint k
RECURSIVE LegsBefore(_, _)
LegsBefore(waypoints, k) ==
  IF k <= 1 THEN 0
  ELSE LegsBefore(waypoints, k - 1)
       + Length(<<waypoints[k][1] - waypoints[k - 1][1],
                  waypoints[k][2] - waypoints[k - 1][2]>>)

PathLength(waypoints) == LegsBefore(waypoints, Len(waypoints))

\* the distance along the path from its first waypoint to the enemy
Travelled(e, waypoints) ==
  LegsBefore(waypoints, e.target_waypoint)
    + Length(<<e.pos[1] - waypoints[e.target_waypoint][1],
               e.pos[2] - waypoints[e.target_waypoint][2]>>)

\* pos lies on the segment from a to b
OnLeg(pos, a, b) ==
  /\ (pos[1] - a[1]) * (b[1] - pos[1]) >= 0
  /\ (pos[2] - a[2]) * (b[2] - pos[2]) >= 0
  /\ (pos[1] - a[1]) * (b[2] - a[2]) = (pos[2] - a[2]) * (b[1] - a[1])

\* C28: on the path of three waypoints and 200 pixels a weak enemy at
\* normal difficulty, with no turret on the map, is always on the leg to
\* its target waypoint; an update moves it on by exactly its speed of one
\* pixel, or leaves it on the waypoint it has reached and turns it to the
\* next; it leaves the map only from the last waypoint, with 200 pixels
\* travelled and its health untouched, and the update that removes it
\* takes 1 from world.health, adds 1 to missed_enemies, pays nothing and
\* counts no kill.
C28_WalksThePathAndEscapes ==
  /\ [](selected_map = 3 =>
          /\ PathLength(Waypoints(3)) = 200 * SUB
          /\ \A i \in 1..Len(enemy_group) :
               LET e   == enemy_group[i]
                   wps == Waypoints(3)
               IN /\ e.enemy_type = "weak" /\ e.speed = SUB /\ e.health = e.max_health
                  /\ e.damage_inflicted = 1
                  /\ IF e.target_waypoint < Len(wps)
                       THEN OnLeg(e.pos, wps[e.target_waypoint], wps[e.target_waypoint + 1])
                       ELSE e.pos = wps[Len(wps)]
                  /\ Travelled(e, wps) <= PathLength(wps))
  /\ [][selected_map = 3 /\ UpdatesEntities =>
          \A i \in 1..Len(enemy_group) :
            LET e   == enemy_group[i]
                wps == Waypoints(3)
            IN IF EnemyStays(i)
                 THEN \/ /\ Travelled(EnemyAfter(i), wps) = Travelled(e, wps) + e.speed
                         /\ EnemyAfter(i).target_waypoint = e.target_waypoint
                      \/ /\ Travelled(EnemyAfter(i), wps) = Travelled(e, wps)
                         /\ EnemyAfter(i).pos = e.pos
                         /\ e.pos = wps[e.target_waypoint + 1]
                         /\ EnemyAfter(i).target_waypoint = e.target_waypoint + 1
                 ELSE /\ e.target_waypoint = Len(wps)
                      /\ Travelled(e, wps) = 200 * SUB
                      /\ world' = [world EXCEPT !.health = world.health - 1,
                                                !.missed_enemies = world.missed_enemies + 1]
                      /\ escape_log' = Append(escape_log, e.id)
                      /\ kill_log' = kill_log]_vars
  /\ [][enemy_group' # enemy_group => UpdatesEntities \/ DrawSpawn]_vars

\* C28 witness: the first enemy of the wave has walked the path and left
\* the map: it is in the escape log and not in the group, world.health is
\* one less, missed_enemies is 1 and the money is what it was.
C28_Witness ==
  /\ selected_map = 3
  /\ escape_log = <<1>>
  /\ kill_log = <<>>
  /\ ~InGroup(enemy_group, 1)
  /\ world.health = HEALTH - 1
  /\ world.missed_enemies = 1
  /\ world.killed_enemies = 0
  /\ world.money = MONEY

\* ---------------------------------------------------------------------------
\* Properties of the roster
\* ---------------------------------------------------------------------------

\* C29: while a World exists its enemy_list is an order of the composition
\* table's entry for its level, with each kind as often as the table says
\* and nothing else (past the last wave process_enemies has raised
\* IndexError and left the list empty); a spawn creates an enemy of the
\* kind enemy_list[spawned_enemies] and adds one to spawned_enemies; and
\* the roster changes only when a World is made or a wave has ended, never
\* between the spawns of a wave.
C29_RosterIsTheTableInFifoOrder ==
  /\ [](world # NoWorld =>
          IF world.level \in DOMAIN WAVE_ENEMY_DATA
            THEN IsRosterOf(world.enemy_list, world.level)
            ELSE fatal = "IndexError" /\ world.enemy_list = <<>>)
  /\ [][next_enemy_id' # next_enemy_id =>
          /\ world.spawned_enemies < Len(world.enemy_list)
          /\ enemy_group' = Append(enemy_group, enemy_group'[Len(enemy_group')])
          /\ enemy_group'[Len(enemy_group')].enemy_type
               = world.enemy_list[world.spawned_enemies + 1]
          /\ world' = [world EXCEPT !.spawned_enemies = world.spawned_enemies + 1]]_vars
  /\ [][world # NoWorld /\ world'.enemy_list # world.enemy_list =>
          \/ world'.level = world.level + 1 /\ world'.spawned_enemies = 0
          \/ clicked' \in {"map", "restart", "back"} /\ world'.spawned_enemies = 0]_vars

\* C29 witness: the roster of wave 2 was shuffled to <<medium, weak>>, the
\* reverse of the table's order, and the two enemies of the wave were
\* spawned in the roster's order.
C29_Witness ==
  /\ world.level = 2
  /\ world.enemy_list = <<"medium", "weak">>
  /\ world.spawned_enemies = 2
  /\ Len(enemy_group) = 2
  /\ enemy_group[1].enemy_type = "medium"
  /\ enemy_group[2].enemy_type = "weak"
  /\ enemy_group[1].id < enemy_group[2].id

(***************************************************************************)
(* Losing: the table of the repository has sixteen waves, whose escapes    *)
(* bring world.health from 100 down; the model's two waves take at most 6. *)
(* This session starts late, at the beginning of a wave on map 1 with no   *)
(* turret and with LowHealth or less health left, and the player begins    *)
(* the wave, may skip it and may restart after the loss.                   *)
(***************************************************************************)
LowHealth == 6
LossFrames == 8
LossCommands == 2

InitLoss ==
  /\ now = 0
  /\ frame_ms = FrameMs
  /\ frames_left = LossFrames
  /\ budget = LossCommands
  /\ pc = "events"
  /\ clicked = ""
  /\ state = "game"
  /\ game_status = 0
  /\ wave_started = FALSE
  /\ last_enemy_spawn = 0
  /\ placing_turrets = FALSE
  /\ selected_turret = None
  /\ placement_message = ""
  /\ message_timer = 0
  /\ current_turret_type = "standard"
  /\ current_difficulty_index = 1
  /\ selected_map = 1
  /\ occupied_tiles = {}
  /\ \E level \in DOMAIN WAVE_ENEMY_DATA, health \in 1..LowHealth :
       world \in process_enemies([NewWorld EXCEPT !.level = level, !.health = health])
  /\ enemy_group = <<>>
  /\ turret_group = <<>>
  /\ fatal = "none"
  /\ next_enemy_id = 1
  /\ next_turret_id = 1
  /\ kill_log = <<>>
  /\ escape_log = <<>>

NextLoss ==
  \/ EvNone
  \/ Update
  \/ DrawOther
  \/ DrawSpawn
  \/ DrawBegin
  \/ DrawWaveCompleted
  \/ BtnNothing
  \/ BtnSkip

SpecLoss == InitLoss /\ [][NextLoss]_vars

\* ---------------------------------------------------------------------------
\* Properties of the loss
\* ---------------------------------------------------------------------------

\* C30: world.health is not clamped: an escape or a skip takes the whole
\* damage, below 0 too.  An update in the state "game" with world.health
\* <= 0 sets game_status = -1 and state = "game_over" and updates no enemy
\* and no turret; the loss is checked before the win, whatever the level;
\* and an update in another state than "game" changes nothing.
C30_LossAtZeroHealth ==
  /\ [][UpdatesEntities =>
          world'.health = world.health
            - DamageAtEnd(enemy_group, 1, Len(Waypoints(selected_map)))]_vars
  /\ [][BtnSkip /\ wave_started =>
          world'.health = world.health - SkipPenalty(enemy_group)]_vars
  /\ [][Update /\ state = "game" /\ world.health <= 0 =>
          /\ game_status' = -1
          /\ state' = "game_over"
          /\ UNCHANGED <<world, enemy_group, turret_group, kill_log, escape_log>>]_vars
  /\ [][Update /\ state # "game" =>
          UNCHANGED <<state, game_status, world, enemy_group, turret_group,
                      kill_log, escape_log>>]_vars
  /\ [][state = "game" /\ state' = "game_over" => Update /\ world.health <= 0]_vars
  /\ [](\A health \in -LowHealth..LowHealth, level \in 1..(MAX_LEVELS + 1) :
          update_branch(health, level) =
            IF health <= 0 THEN "loss"
            ELSE IF level <= MAX_LEVELS THEN "run" ELSE "win")
  /\ [](state = "game_over" => game_status = -1 /\ world.health <= 0)

\* C30 witness: world.health has gone below 0 and the game is lost; the
\* update that has just run, with the health at or below 0, has left an
\* enemy in the group.
C30_Witness ==
  /\ state = "game_over"
  /\ game_status = -1
  /\ world.health < 0
  /\ pc = "draw"
  /\ Len(enemy_group) > 0

(***************************************************************************)
(* Selling: a player who selects the map, buys standard and purple turrets *)
(* for the tile (0, 0), selects the turret, upgrades it, sells it and buys *)
(* again.                                                                  *)
(***************************************************************************)
SellFrames == 8
SellCommands == 8

InitSell == GameInit({FrameMs}, SellFrames, SellCommands)

NextSell ==
  \/ EvNone
  \/ \E map \in MapIds : EvSelectMap(map)
  \/ EvPlaceTurret(0, 0)
  \/ EvSelectTurret(0, 0)
  \/ Update
  \/ DrawOther
  \/ DrawSpawn
  \/ DrawBegin
  \/ DrawWaveCompleted
  \/ BtnNothing
  \/ \E turret_type \in {"standard", "purple"} : BtnTurretType(turret_type)
  \/ BtnUpgrade
  \/ BtnSell

SpecSell == InitSell /\ [][NextSell]_vars

\* C31: a press of the sell button credits int(turret_buy_costs[kind] *
\* SELL_RETURN_RATE) for the selected turret, whatever its level, removes
\* that turret and no other from the group, takes its tile out of the
\* occupied tiles and clears the selection; a placement click by a player
\* who can pay, on a sand tile no live turret stands on, places a turret;
\* and a turret that has left the group never comes back, so that no turret
\* is sold twice.
C31_SellCreditsAndFrees ==
  /\ [][clicked' = "sell" =>
          /\ selected_turret # None
          /\ InGroup(turret_group, selected_turret)
          /\ LET i == TurretIndex(turret_group, selected_turret)
                 tu == turret_group[i]
             IN /\ world' = [world EXCEPT !.money = world.money
                      + (turret_buy_costs[tu.turret_type] * SELL_RETURN_NUM)
                          \div SELL_RETURN_DEN]
                /\ Len(turret_group') = Len(turret_group) - 1
                /\ ~InGroup(turret_group', tu.id)
                /\ \A j \in 1..Len(turret_group) :
                     j # i => \E k \in 1..Len(turret_group') :
                                turret_group'[k] = turret_group[j]
                /\ TileNum(<<tu.mouse_tile_x, tu.mouse_tile_y>>) \notin occupied_tiles'
                /\ selected_turret' = None]_vars
  /\ [][\A tile \in ClickTiles :
          /\ EvPlaceTurret(tile[1], tile[2])
          /\ world.money >= turret_buy_costs[current_turret_type]
          /\ TileNum(tile) \in SandTiles(selected_map)
          /\ \A i \in 1..Len(turret_group) :
               <<turret_group[i].mouse_tile_x, turret_group[i].mouse_tile_y>> # tile
          => /\ Len(turret_group') = Len(turret_group) + 1
             /\ placement_message' = "Turret placed successfully!"]_vars
  /\ [][\A id \in 1..(next_turret_id - 1) :
          ~InGroup(turret_group, id) => ~InGroup(turret_group', id)]_vars

\* C31 witness: the first turret was upgraded to level 2 and sold for the
\* price of a level 1 turret, and the second turret stands on its tile.
C31_Witness ==
  /\ clicked = "place"
  /\ placement_message = "Turret placed successfully!"
  /\ Len(turret_group) = 1
  /\ turret_group[1].id = 2
  /\ turret_group[1].mouse_tile_x = 0 /\ turret_group[1].mouse_tile_y = 0
  /\ occupied_tiles = {0}
  /\ selected_turret = None
  /\ world.money = MONEY - turret_buy_costs.standard - UPGRADE_COST
                     + (turret_buy_costs.standard * SELL_RETURN_NUM) \div SELL_RETURN_DEN
                     - turret_buy_costs.standard

(***************************************************************************)
(* Properties of the wave's counters.                                      *)
(***************************************************************************)
\* C32: at every tick boundary of a session every spawned enemy is accounted
\* for exactly once: spawned_enemies = killed_enemies + missed_enemies + the
\* number of live enemies; and while no wave is started (the last wave has
\* completed, the next has not begun) no enemy is alive.
C32_EverySpawnedEnemyAccountedOnce ==
  pc = "events" /\ state = "game" /\ fatal = "none" =>
    /\ world.spawned_enemies =
         world.killed_enemies + world.missed_enemies + Len(enemy_group)
    /\ ~wave_started => enemy_group = <<>>

\* C33: the reward of a wave and the level go together, once a wave: a step
\* of a session that changes the level is the completion branch of draw_game
\* or skip_wave, raises the level by exactly 1 and pays WAVE_COMPLETE_REWARD
\* and nothing else; the two steps pay nothing in any other case; after such
\* a step the counters are 0, so that neither the completion branch nor the
\* skip button is open for the wave that has ended; and a player who has
\* bought no turret has MONEY plus one reward for every wave ended.
C33_RewardAndLevelOncePerWave ==
  /\ [][world'.level # world.level /\ state = "game" /\ state' = "game" =>
          /\ (DrawWaveCompleted /\ is_wave_completed(world)) \/ (BtnSkip /\ wave_started)
          /\ world'.level = world.level + 1
          /\ world'.money = world.money + WAVE_COMPLETE_REWARD
          /\ world'.spawned_enemies = 0
          /\ world'.killed_enemies = 0
          /\ world'.missed_enemies = 0
          /\ ~wave_started'
          /\ fatal' = "none" => /\ ~is_wave_completed(world')
                                /\ ~(world'.spawned_enemies = Len(world'.enemy_list))]_vars
  /\ [][DrawWaveCompleted \/ BtnSkip =>
          \/ world' = world
          \/ world'.level = world.level + 1]_vars
  /\ [](next_turret_id = 1 /\ state = "game" =>
          world.money = MONEY + WAVE_COMPLETE_REWARD * (world.level - 1))

\* C33 witness: the two enemies of wave 1 have left the map, the completion
\* branch has just paid the reward and raised the level to 2, and the skip
\* button is not offered.
C33_Witness ==
  /\ pc = "buttons"
  /\ state = "game"
  /\ world.level = 2
  /\ world.health = HEALTH - 2 * ENEMY_DATA.weak.damage_inflicted
  /\ world.money = MONEY + WAVE_COMPLETE_REWARD
  /\ ~wave_started
  /\ enemy_group = <<>>
  /\ ~SkipOffered

(***************************************************************************)
(* Properties of the spawn.                                                *)
(***************************************************************************)
\* C34: an enemy is added to the group only by draw_game's spawn, while
\* wave_started is true, more than SPAWN_COOLDOWN ms after last_enemy_spawn,
\* which the spawn sets to the current time; last_enemy_spawn is only ever
\* set to the current time, so that two consecutive spawns are more than
\* SPAWN_COOLDOWN ms apart.  The step that ends a wave leaves wave_started
\* false, wave_started becomes true only by the begin command, and the
\* begin command is taken only while no wave is started.
C34_SpawnOnlyInAStartedWave ==
  /\ [][next_enemy_id' # next_enemy_id \/ Len(enemy_group') > Len(enemy_group)
          \/ world'.spawned_enemies > world.spawned_enemies =>
          /\ DrawSpawn
          /\ wave_started
          /\ now - last_enemy_spawn > SPAWN_COOLDOWN
          /\ last_enemy_spawn' = now
          /\ Len(enemy_group') = Len(enemy_group) + 1
          /\ world'.spawned_enemies = world.spawned_enemies + 1
          /\ enemy_group'[Len(enemy_group')].enemy_type =
               world.enemy_list[world'.spawned_enemies]]_vars
  /\ [][last_enemy_spawn' # last_enemy_spawn =>
          last_enemy_spawn' = now' /\ last_enemy_spawn' > last_enemy_spawn]_vars
  /\ [][world'.level = world.level + 1 => ~wave_started']_vars
  /\ [][wave_started' /\ ~wave_started => clicked' = "begin" /\ DrawBegin]_vars
  /\ [][clicked' = "begin" /\ clicked # "begin" => ~wave_started]_vars

\* C34 witness: in a started wave the second enemy of the roster has just
\* been spawned, more than SPAWN_COOLDOWN ms and more than one frame after
\* the first.
C34_Witness ==
  /\ pc = "complete"
  /\ wave_started
  /\ world.spawned_enemies = 2
  /\ last_enemy_spawn = now
  /\ Len(enemy_group) > 0
  /\ enemy_group[Len(enemy_group)].id = 2
  /\ frame_ms <= SPAWN_COOLDOWN

(***************************************************************************)
(* The last wave with a turret: the player of SpecTidal, for long enough   *)
(* to end the first wave, buy a tidal upgrade in the last wave and end     *)
(* that wave too.                                                          *)
(***************************************************************************)
LastWaveFrames == 9
LastWaveCommands == 9

InitLastWave == GameInit({TidalFrameMs}, LastWaveFrames, LastWaveCommands)

SpecLastWave == InitLastWave /\ [][NextTidal]_vars

\* C35: a tidal upgrade is active only during a started wave: no turret has
\* tidal_active set while wave_started is false.
C35_TidalOnlyInAStartedWave ==
  \A i \in 1..Len(turret_group) : turret_group[i].tidal_active => wave_started

(***************************************************************************)
(* Properties of a turret's stats.                                         *)
(***************************************************************************)
\* C36: for every turret, the level is a level of TURRET_DATA and the base
\* range, cooldown and damage are the table's for the turret's kind and
\* level; without an active tidal upgrade the current range, damage and
\* cooldown are the base ones; with an active tidal upgrade the range and
\* the damage are int(base * TIDAL_MULTIPLIER), the cooldown is the base
\* cooldown and tidal_used is set.
C36_StatsFollowTheTable ==
  \A i \in 1..Len(turret_group) :
    LET tu == turret_group[i]
    IN /\ tu.turret_level \in DOMAIN TURRET_DATA[tu.turret_type]
       /\ LET d == TURRET_DATA[tu.turret_type][tu.turret_level]
          IN /\ tu.base_range = d.range
             /\ tu.base_cooldown = d.cooldown
             /\ tu.base_damage = d.damage
       /\ tu.cooldown = tu.base_cooldown
       /\ ~tu.tidal_active =>
            tu.range = tu.base_range /\ tu.damage = tu.base_damage
       /\ tu.tidal_active =>
            /\ tu.range = (tu.base_range * TIDAL_MULT_NUM) \div TIDAL_MULT_DEN
            /\ tu.damage = (tu.base_damage * TIDAL_MULT_NUM) \div TIDAL_MULT_DEN
            /\ tu.tidal_used

\* C36 witness: a purple turret that was upgraded to level 2 (range 140,
\* damage 7) has an active tidal upgrade: range 175, damage 8, cooldown 1600.
C36_Witness ==
  /\ Len(turret_group) = 1
  /\ turret_group[1].turret_type = "purple"
  /\ turret_group[1].turret_level = 2
  /\ turret_group[1].tidal_active
  /\ turret_group[1].range = 175
  /\ turret_group[1].damage = 8
  /\ turret_group[1].cooldown = 1600

(***************************************************************************)
(* Properties of the occupied tiles.                                       *)
(***************************************************************************)
\* C37: the occupied tiles are the tile numbers (mouse_tile_y * COLS +
\* mouse_tile_x) of the live turrets, no two live turrets stand on the same
\* tile, every live turret stands on a tile of id 161 of the selected map,
\* at the centre of its tile, and a turret that stays in the group keeps
\* its tile and its position.
C37_OccupiedTilesAreTheTurrets ==
  /\ [](/\ \A n \in occupied_tiles : \E i \in 1..Len(turret_group) :
               n = (turret_group[i].mouse_tile_y * COLS) + turret_group[i].mouse_tile_x
        /\ \A i \in 1..Len(turret_group) :
             LET tu == turret_group[i]
                 n == (tu.mouse_tile_y * COLS) + tu.mouse_tile_x
             IN /\ n \in occupied_tiles
                /\ TileMap(selected_map, n) = SAND
                /\ tu.x = tu.mouse_tile_x * TILE_SIZE + TILE_SIZE \div 2
                /\ tu.y = tu.mouse_tile_y * TILE_SIZE + TILE_SIZE \div 2
                /\ \A j \in 1..Len(turret_group) :
                     j # i => <<turret_group[j].mouse_tile_x, turret_group[j].mouse_tile_y>>
                                # <<tu.mouse_tile_x, tu.mouse_tile_y>>)
  /\ [][\A i \in 1..Len(turret_group) : Stays(i) =>
          /\ After(i).mouse_tile_x = turret_group[i].mouse_tile_x
          /\ After(i).mouse_tile_y = turret_group[i].mouse_tile_y
          /\ After(i).x = turret_group[i].x
          /\ After(i).y = turret_group[i].y]_vars

\* C37 witness: two turrets stand on the two sand tiles by the path, and
\* these are the occupied tiles.
C37_Witness ==
  /\ Len(turret_group) = 2
  /\ occupied_tiles = {0, 1}
  /\ turret_group[1].mouse_tile_x # turret_group[2].mouse_tile_x
  /\ clicked = "place"

(***************************************************************************)
(* Properties of the player's health.                                      *)
(***************************************************************************)
\* C38: within a session (from the selection of a map to the return to the
\* menu) the player's health starts at HEALTH and never increases; a step
\* changes it only by taking the damage_inflicted of the enemies that leave
\* the map in an update, or of the enemies that skip_wave removes; no other
\* step (a kill, a purchase, a sale, the completion of a wave) changes it.
\* During wave 1, whose enemies are all weak, the health is HEALTH minus
\* the damage of the enemies missed.
C38_HealthOnlyFallsByEscapes ==
  /\ [][state = "menu" /\ state' = "game" => world'.health = HEALTH]_vars
  /\ [][state # "menu" /\ state' # "menu" =>
          /\ world'.health <= world.health
          /\ world'.health = world.health -
               (IF UpdatesEntities
                  THEN DamageAtEnd(enemy_group, 1, Len(Waypoints(selected_map)))
                  ELSE IF clicked' = "skip" /\ clicked = "" /\ wave_started
                         THEN SkipPenalty(enemy_group)
                         ELSE 0)]_vars
  /\ [](state # "menu" => world.health <= HEALTH)
  /\ [](state = "game" /\ world.level = 1 =>
          world.health =
            HEALTH - world.missed_enemies * ENEMY_DATA.weak.damage_inflicted)

\* C38 witness: the first enemy of wave 1 has left the map and the second
\* has been removed by skip_wave: the health is HEALTH - 2, and the reward
\* of the wave has been paid.
C38_Witness ==
  /\ clicked = "skip"
  /\ state = "game"
  /\ world.level = 2
  /\ escape_log = <<1>>
  /\ world.health = HEALTH - 2 * ENEMY_DATA.weak.damage_inflicted
  /\ world.money = MONEY + WAVE_COMPLETE_REWARD

(***************************************************************************)
(* Sessions: a game late in a session, with little health left, and a      *)
(* player who buys a standard turret for the tile (0, 0), selects it,      *)
(* begins the wave, may skip it, loses or goes back to the menu, and       *)
(* selects a map again.                                                    *)
(***************************************************************************)
SessionFrames == 7
SessionCommands == 7

InitSession ==
  /\ now = 0
  /\ frame_ms = FrameMs
  /\ frames_left = SessionFrames
  /\ budget = SessionCommands
  /\ pc = "events"
  /\ clicked = ""
  /\ state = "game"
  /\ game_status = 0
  /\ wave_started = FALSE
  /\ last_enemy_spawn = 0
  /\ placing_turrets = FALSE
  /\ selected_turret = None
  /\ placement_message = ""
  /\ message_timer = 0
  /\ current_turret_type = "standard"
  /\ current_difficulty_index = 1
  /\ selected_map = 1
  /\ occupied_tiles = {}
  /\ \E health \in 1..LowHealth :
       world \in process_enemies([NewWorld EXCEPT !.health = health])
  /\ enemy_group = <<>>
  /\ turret_group = <<>>
  /\ fatal = "none"
  /\ next_enemy_id = 1
  /\ next_turret_id = 1
  /\ kill_log = <<>>
  /\ escape_log = <<>>

NextSession ==
  \/ EvNone
  \/ \E map \in MapIds : EvSelectMap(map)
  \/ EvPlaceTurret(0, 0)
  \/ EvSelectTurret(0, 0)
  \/ Update
  \/ DrawOther
  \/ DrawSpawn
  \/ DrawBegin
  \/ DrawWaveCompleted
  \/ BtnNothing
  \/ BtnTurretType("standard")
  \/ BtnBack
  \/ BtnSkip

SpecSession == InitSession /\ [][NextSession]_vars

\* the fields of Game a new session starts from, the world apart
FreshGame ==
  /\ enemy_group = <<>>
  /\ turret_group = <<>>
  /\ occupied_tiles = {}
  /\ selected_turret = None
  /\ ~wave_started
  /\ ~placing_turrets
  /\ game_status = 0

\* C39: every step from the menu into the game starts a fresh session: the
\* world has health HEALTH, money MONEY, level 1, counters 0 and the roster
\* of wave 1, there is no live enemy, no turret, no occupied tile and no
\* selected turret, wave_started is false and game_status is 0.  The game
\* is left for the menu only by restart_level, and the menu keeps the
\* fields as restart_level left them.
C39_EverySessionStartsFresh ==
  /\ [][state = "menu" /\ state' = "game" =>
          /\ world'.health = HEALTH
          /\ world'.money = MONEY
          /\ world'.level = 1
          /\ world'.spawned_enemies = 0
          /\ world'.killed_enemies = 0
          /\ world'.missed_enemies = 0
          /\ IsRosterOf(world'.enemy_list, 1)
          /\ FreshGame']_vars
  /\ [][state # "menu" /\ state' = "menu" =>
          clicked' \in {"restart", "back"} /\ FreshGame']_vars
  /\ [](state = "menu" => FreshGame)

\* C39 witness: a map has just been selected again, after a session in
\* which a turret was bought and selected and the two enemies of a wave
\* were spawned; nothing of that session is left.
C39_Witness ==
  /\ state = "game"
  /\ clicked = "map"
  /\ pc = "update"
  /\ next_turret_id = 2
  /\ next_enemy_id = 3
  /\ world.health = HEALTH /\ world.money = MONEY /\ world.level = 1
  /\ FreshGame

(***************************************************************************)
(* Selection: a player who buys standard turrets for the two tiles by the  *)
(* path, clicks on them and on an empty tile, and presses the upgrade, the *)
(* tidal upgrade, the sell and the back button.                            *)
(***************************************************************************)
SelectFrames == 8
SelectCommands == 8

SelectTiles == {<<0, 0>>, <<1, 0>>, <<10, 0>>}

InitSelect == GameInit({FrameMs}, SelectFrames, SelectCommands)

NextSelect ==
  \/ EvNone
  \/ \E map \in MapIds : EvSelectMap(map)
  \/ \E tile \in NearTiles : EvPlaceTurret(tile[1], tile[2])
  \/ \E tile \in SelectTiles : EvSelectTurret(tile[1], tile[2])
  \/ Update
  \/ DrawOther
  \/ DrawSpawn
  \/ DrawBegin
  \/ DrawWaveCompleted
  \/ BtnNothing
  \/ BtnTurretType("standard")
  \/ BtnUpgrade
  \/ BtnTidal
  \/ BtnSell
  \/ BtnBack

SpecSelect == InitSelect /\ [][NextSelect]_vars

\* C40: selected_turret is None or a turret of the group, and the turrets
\* whose selected flag is set are exactly that turret; the upgrade, tidal
\* upgrade and sell buttons are pressed only with a turret of the group
\* selected, and a press leaves every other turret as it was; with nothing
\* selected none of the three is pressed.
C40_SelectionIsALiveTurret ==
  /\ [](/\ selected_turret # None => InGroup(turret_group, selected_turret)
        /\ \A i \in 1..Len(turret_group) :
             turret_group[i].selected <=> turret_group[i].id = selected_turret
        /\ Cardinality({i \in 1..Len(turret_group) : turret_group[i].selected}) <= 1)
  /\ [][clicked' \in {"upgrade", "tidal", "sell"} /\ clicked = "" =>
          /\ selected_turret # None
          /\ InGroup(turret_group, selected_turret)
          /\ \A i \in 1..Len(turret_group) :
               turret_group[i].id # selected_turret =>
                 Stays(i) /\ After(i) = turret_group[i]]_vars
  /\ [][selected_turret = None /\ pc = "buttons" =>
          clicked' \notin {"upgrade", "tidal", "sell"}]_vars

\* C40 witness: of two turrets the second is selected and alone has its
\* flag set; the upgrade button was pressed and has upgraded it alone.
C40_Witness ==
  /\ Len(turret_group) = 2
  /\ selected_turret = turret_group[2].id
  /\ turret_group[2].selected /\ ~turret_group[1].selected
  /\ clicked = "upgrade"
  /\ turret_group[2].turret_level = 2 /\ turret_group[1].turret_level = 1

====
